---- MODULE Spec2Model ----
(***************************************************************************)
(* A model of the requestor-side engine of yarapi: the batch result        *)
(* stream (rest/activity.rs), the deferred-cleanup queue                   *)
(* (rest/async_drop.rs), the message framing codec                         *)
(* (rest/streaming/capture_messages.rs), the payment manager               *)
(* (requestor/payment_manager.rs) and the proposal negotiation             *)
(* (rest/market.rs, lib.rs).  Each component has its own specification;    *)
(* the variables of the other components stay at their initial values.     *)
(***************************************************************************)
EXTENDS Integers, Sequences, FiniteSets, TLC

VARIABLES
    \* ---- batch result stream (generate_events) ----
    command_index,   \* Option<usize> carried by try_unfold: None or a number
    finish,          \* the bool carried by try_unfold
    pending,         \* results of the last poll that passed the filter, not yet yielded
    bstatus,         \* "open", "ended" (stream returned None), "failed" (generator error)
    delivered,       \* items yielded to the consumer so far
    npolls,          \* number of generator calls made
    lastPoll,        \* the last generator call: its from-index, its response, and
                     \* how many items had been yielded before it
    scenario,        \* how far the poll history follows [0,1], [1,2 finished]
    variant,         \* which RunningBatch polls: "default" (DefaultBatch) or "sgx" (SgxBatch)
    ntimeouts        \* number of polls that timed out

VARIABLES
    \* ---- deferred-cleanup queue (DropList, drop_task) ----
    dqueue,          \* the unbounded channel: commands sent and not yet received
    running,         \* deferred actions the worker has started and not finished
    finished,        \* deferred actions that have run to completion
    aresult,         \* outcome of each finished action ("ok", "err"), else "none"
    enqueued,        \* ids of the actions in the order async_drop sent them
    started,         \* ids of the actions in the order the worker started them
    fstate,          \* per flush call: "idle", "waiting" (Sync sent), "returned"
    fbefore,         \* per flush call: the actions enqueued before the call
    acked,           \* flush calls whose Sync the worker has acknowledged
    worker           \* the task spawned by drop_task: "running", "stopped"

VARIABLES
    \* ---- message framing codec (MessageProcessor, encode_message) ----
    cmsg,            \* the message M that was encoded into the stream
    cprefix,         \* free text before the frame
    csuffix,         \* free text after the frame
    cfirst,          \* a frame written before the frame of M (or none)
    cmid,            \* free text between that frame and the frame of M
    cinput,          \* the whole byte sequence the exe-unit wrote
    cpos,            \* number of bytes of cinput already fed to consume_message
    buffer,          \* MessageProcessor.buffer
    retained,        \* concatenation of the outputs consume_message returned
    lastOut,         \* what the last consume_message call returned: "Some", "None", "-"
    cutAtMarker,     \* some chunk so far ended directly after the start marker
    notified,        \* messages sent on the notifier channel, in order
    polled           \* last CaptureMessages::poll_next: what the inner stream gave
                     \* ("StdOut", "other", "end") and what poll_next returned

VARIABLES
    \* ---- payment manager (PaymentManager) ----
    valid_agreements,       \* HashSet<String>
    amount_paid,            \* BigDecimal
    last_invoice_event,     \* timestamp of the last invoice event seen
    last_debit_note_event,  \* timestamp of the last debit note event seen
    ipc,                    \* invoice cycle: "scheduled" (run_later) or "fetching"
    its,                    \* the `ts` the in-flight invoice fetch started from
    dpc,                    \* debit note cycle: "scheduled" or "fetching"
    dts,                    \* the `ts` the in-flight debit note fetch started from
    pcalls,                 \* accept/reject calls spawned so far, in order
    prun,                   \* history: how the last finished run of each cycle
                            \* ended ("-", "ok", "err"), or "off" when not kept
    plog                    \* AcceptAgreement messages handled and invoices decided,
                            \* in order, each decision with the manager's state
                            \* before and after it

VARIABLES
    \* ---- proposal negotiation (Subscription::negotiated_proposals, Requestor) ----
    site,            \* which code runs: "market" (rest/market.rs) or "requestor" (lib.rs)
    issued,          \* number of events the market has delivered so far
    chan1,           \* channel from proposals_collector to the negotiating task
    chan2,           \* channel from the negotiating task to its consumer
    consumed,        \* proposals the consumer has received, in order
    counters,        \* counter-proposal calls made, in order
    handled,         \* proposals taken up so far, each with the search state it met
    rstate,          \* AgreementSearchState of the Requestor loop
    proposals,       \* the Requestor loop's candidate vector
    pooled,          \* ids of the proposals ever pushed to the candidate vector
    elapsed,         \* time_start.elapsed() at the last selection check, in seconds
    providers_num,   \* self.tasks.len()
    negotiating,     \* proposal ids for which an agreement task was spawned, in order
    rpc,             \* the Requestor loop: "running" or "failed" (collect error)
    lastCheck,       \* the latest selection check: its time, the candidates, the verdict
    atasks           \* the spawned agreement tasks, in spawn order: position and outcomes

VARIABLES
    \* ---- handles of remote resources and Session::with (rest.rs) ----
    hkind,           \* per handle: "none" until created, then what it stands for
    hdrop,           \* per handle: its drop list, "Some" or "None"
    hwork,           \* per handle: holders that the workload of Session::with owns
    hother,          \* per handle: holders owned outside the workload
    wstate,          \* Session::with: "idle", "running", "flushing", "returned"
    wwinner,         \* what future::select returned first: "-", "work", "ctrl_c"
    wresult,         \* what with returns: "-", "Some(Ok)", "Some(Err)", "None"
    wdropped,        \* handles whose Drop ran when with dropped the workload
    hcalls           \* per handle: the calls made directly on its
                     \* CancelableDropList ("async_drop", "cancel") and the
                     \* remote calls of its destroy(), in order

VARIABLES
    \* ---- Subscription::proposals (rest/market.rs) ----
    pstatus,         \* the stream: "open", "failed" (an Err was yielded), "ended"
    ppending,        \* proposals of the last collect that are not yet yielded
    pyielded,        \* the items yielded so far, in order
    plast,           \* how the last collect call ended: "-", "events", "empty", "error"
    ppolls,          \* number of collect calls made
    \* ---- Subscription::negotiate_agreements (rest/market.rs) ----
    astatus,         \* the call: "idle", "running", "returned", "failed"
    anum,            \* num_agreements
    agreements,      \* the vector `agreements`: ids of the proposals agreed on
    afailed,         \* the candidates given up: proposal id and failed step
    \* ---- Subscription::collect_proposals and its proposals_collector task ----
    collector        \* task: "-", "running", "stopped"; rx: the Receiver, "held" or
                     \* "dropped"; chan: proposals in the channel; others: handles
                     \* on the SubscriptionInner held outside the task and the
                     \* channel; seen: proposals collected; last: how the last
                     \* collect ended; unsub: Drop for SubscriptionInner has run

batchVars == <<command_index, finish, pending, bstatus, delivered, npolls, lastPoll, scenario, variant, ntimeouts>>
dropVars == <<dqueue, running, finished, aresult, enqueued, started, fstate, fbefore, acked, worker>>

codecVars == <<cmsg, cprefix, csuffix, cfirst, cmid, cinput, cpos, buffer, retained, lastOut,
              cutAtMarker, notified, polled>>

payVars == <<valid_agreements, amount_paid, last_invoice_event, last_debit_note_event,
            ipc, its, dpc, dts, pcalls, plog, prun>>

sessVars == <<hkind, hdrop, hwork, hother, wstate, wwinner, wresult, wdropped, hcalls>>

negVars == <<site, issued, chan1, chan2, consumed, counters, handled, rstate, proposals,
            pooled, elapsed, providers_num, negotiating, rpc, lastCheck, atasks>>

propVars == <<pstatus, ppending, pyielded, plast, ppolls>>

agrVars == <<astatus, anum, agreements, afailed>>

mktVars == <<propVars, agrVars, collector>>

vars == <<batchVars, dropVars, codecVars, payVars, negVars, sessVars, mktVars>>

(***************************************************************************)
(* Batch result stream: rest/activity.rs, generate_events                  *)
(***************************************************************************)
None == -1

\* The command vector of the batch: exec([Deploy, Start, Run]).
Commands == <<"Deploy", "Start", "Run">>

\* Largest result index the server may put in a response (one past the
\* command vector, so that an invalid index is among the inputs).
MaxIndex == Len(Commands)
\* Longest poll response.
MaxResp == 2
\* Number of polls of one events() sequence that are explored.
MaxPolls == 2
\* Number of polls that time out in one run.
MaxTimeouts == 1

Results == [index : 0..MaxIndex, finished : BOOLEAN, ok : BOOLEAN]

RECURSIVE SeqsUpTo(_, _)
SeqsUpTo(S, n) ==
    IF n = 0 THEN {<<>>}
    ELSE LET shorter == SeqsUpTo(S, n - 1)
         IN  shorter \cup {Append(s, x) : s \in {t \in shorter : Len(t) = n - 1}, x \in S}

Responses == SeqsUpTo(Results, MaxResp)

Max(S) == CHOOSE x \in S : \A y \in S : y <= x

\* Option<usize> ordering: None < Some(x); Some(x) >= Some(y) iff x >= y
SomeGe(x, opt) == IF opt = None THEN TRUE ELSE x >= opt

\* result.iter().map(|r| r.index + 1).max().or(command_index)
LastIndex(resp, ci) ==
    IF resp = <<>> THEN ci ELSE Max({resp[i].index + 1 : i \in 1..Len(resp)})

\* result.iter().any(|r| r.is_batch_finished)
IsLast(resp) == \E i \in 1..Len(resp) : resp[i].finished

\* .filter(move |s| Some(s.index as usize) >= command_index)
PassesFilter(step, ci) == SomeGe(step.index, ci)

\* (mutant) the filter left out: every result of the response is kept
FilterNothing(resp, ci) == resp

RECURSIVE FilterResults(_, _)
FilterResults(resp, ci) ==
    IF resp = <<>> THEN <<>>
    ELSE IF PassesFilter(Head(resp), ci)
         THEN <<Head(resp)>> \o FilterResults(Tail(resp), ci)
         ELSE FilterResults(Tail(resp), ci)

\* the .map closure: commands.get(index) or an error, then the match on step.result
MapStep(step) ==
    IF step.index + 1 > Len(Commands)
    THEN [kind |-> "Err", index |-> step.index, command |-> "none"]
    ELSE IF step.ok
         THEN [kind |-> "StepSuccess", index |-> step.index, command |-> Commands[step.index + 1]]
         ELSE [kind |-> "StepFailed", index |-> step.index, command |-> "none"]

\* The scripted server of the scenario: polls answered [0,1] then [1,2 finished].
ScenarioResp(n) ==
    IF n = 1
    THEN << [index |-> 0, finished |-> FALSE, ok |-> TRUE],
            [index |-> 1, finished |-> FALSE, ok |-> TRUE] >>
    ELSE << [index |-> 1, finished |-> FALSE, ok |-> TRUE],
            [index |-> 2, finished |-> TRUE, ok |-> TRUE] >>

InitBatch ==
    /\ command_index = None
    /\ finish = FALSE
    /\ pending = <<>>
    /\ bstatus = "open"
    /\ delivered = <<>>
    /\ npolls = 0
    /\ lastPoll = [from |-> None, resp |-> <<>>, base |-> 0, outcome |-> "none"]
    /\ scenario = 0
    /\ variant \in {"default", "sgx"}
    /\ ntimeouts = 0

\* One step of the try_unfold closure with the generator answering `resp`.
PollResults(resp) ==
    /\ bstatus = "open"
    /\ pending = <<>>
    /\ ~finish
    /\ npolls < MaxPolls
    /\ npolls' = npolls + 1
    /\ lastPoll' = [from |-> command_index, resp |-> resp, base |-> Len(delivered),
                    outcome |-> "ok"]
    /\ command_index' = LastIndex(resp, command_index)
    /\ finish' = IsLast(resp)
    /\ pending' = FilterResults(resp, command_index)
    /\ scenario' = IF scenario = npolls /\ npolls < 2 /\ resp = ScenarioResp(npolls + 1)
                   THEN npolls + 1 ELSE -1
    /\ UNCHANGED <<bstatus, delivered, variant, ntimeouts>>
    /\ UNCHANGED <<dropVars, codecVars, payVars, negVars, sessVars, mktVars>>

\* The generator fails: `?` makes try_unfold yield the error and finish.
PollError ==
    /\ bstatus = "open"
    /\ pending = <<>>
    /\ ~finish
    /\ npolls < MaxPolls
    /\ npolls' = npolls + 1
    /\ lastPoll' = [from |-> command_index, resp |-> <<>>, base |-> Len(delivered),
                    outcome |-> "error"]
    /\ delivered' = Append(delivered, [kind |-> "Err", index |-> None, command |-> "none"])
    /\ bstatus' = "failed"
    /\ scenario' = -1
    /\ UNCHANGED <<command_index, finish, pending, variant, ntimeouts>>
    /\ UNCHANGED <<dropVars, codecVars, payVars, negVars, sessVars, mktVars>>

\* Whether the generator of a variant loops on a timeout: SgxBatch::events
\* matches TimeoutError and InternalError("Timeout") and calls again;
\* DefaultBatch::events passes every error on with `?`.
RetriesTimeout(v) == v = "sgx"

\* The API call of a poll times out.  A generator that retries calls again
\* with the same index and try_unfold sees nothing; otherwise the error ends
\* the sequence like any other.
PollTimeout ==
    /\ bstatus = "open"
    /\ pending = <<>>
    /\ ~finish
    /\ ntimeouts < MaxTimeouts
    /\ ntimeouts' = ntimeouts + 1
    /\ lastPoll' = [from |-> command_index, resp |-> <<>>, base |-> Len(delivered),
                    outcome |-> "timeout"]
    /\ IF RetriesTimeout(variant)
       THEN UNCHANGED <<delivered, bstatus, scenario>>
       ELSE /\ delivered' = Append(delivered,
                                   [kind |-> "Err", index |-> None, command |-> "none"])
            /\ bstatus' = "failed"
            /\ scenario' = -1
    /\ UNCHANGED <<command_index, finish, pending, npolls, variant>>
    /\ UNCHANGED <<dropVars, codecVars, payVars, negVars, sessVars, mktVars>>

\* try_flatten yields the next item of the inner stream::iter(events).
NextEvent ==
    /\ pending # <<>>
    /\ delivered' = Append(delivered, MapStep(Head(pending)))
    /\ pending' = Tail(pending)
    /\ UNCHANGED <<command_index, finish, bstatus, npolls, lastPoll, scenario, variant,
                   ntimeouts>>
    /\ UNCHANGED <<dropVars, codecVars, payVars, negVars, sessVars, mktVars>>

\* `if finish { return Ok(None) }`: the sequence ends.
EndOfStream ==
    /\ bstatus = "open"
    /\ pending = <<>>
    /\ finish
    /\ bstatus' = "ended"
    /\ UNCHANGED <<command_index, finish, pending, delivered, npolls, lastPoll, scenario,
                   variant, ntimeouts>>
    /\ UNCHANGED <<dropVars, codecVars, payVars, negVars, sessVars, mktVars>>

NextBatch ==
    \/ \E resp \in Responses : PollResults(resp)
    \/ PollError
    \/ PollTimeout
    \/ NextEvent
    \/ EndOfStream

(***************************************************************************)
(* Deferred-cleanup queue: rest/async_drop.rs                              *)
(***************************************************************************)
\* Number of deferred actions registered in one run.
MaxActions == 3
\* Number of flush() calls in one run.
MaxFlushes == 2

ActionIds == 1..MaxActions
FlushIds == 1..MaxFlushes

SeqToSet(s) == {s[i] : i \in 1..Len(s)}

InitDrop ==
    /\ dqueue = <<>>
    /\ running = {}
    /\ finished = {}
    /\ aresult = [a \in ActionIds |-> "none"]
    /\ enqueued = <<>>
    /\ started = <<>>
    /\ fstate = [f \in FlushIds |-> "idle"]
    /\ fbefore = [f \in FlushIds |-> {}]
    /\ acked = {}
    /\ worker = "running"

\* DropList::async_drop: unbounded_send(DropAction(..)); returns at once.
AsyncDrop(a) ==
    /\ a \notin SeqToSet(enqueued)
    /\ worker = "running"
    /\ dqueue' = Append(dqueue, [type |-> "DropAction", id |-> a])
    /\ enqueued' = Append(enqueued, a)
    /\ UNCHANGED <<running, finished, aresult, started, fstate, fbefore, acked, worker>>
    /\ UNCHANGED <<batchVars, codecVars, payVars, negVars, sessVars, mktVars>>

\* DropList::flush, up to its await: unbounded_send(Sync(tx)); when the
\* receiver is gone the send fails and flush returns without awaiting.
FlushCall(f) ==
    /\ fstate[f] = "idle"
    /\ IF worker = "running"
       THEN /\ dqueue' = Append(dqueue, [type |-> "Sync", id |-> f])
            /\ fstate' = [fstate EXCEPT ![f] = "waiting"]
       ELSE /\ fstate' = [fstate EXCEPT ![f] = "returned"]
            /\ UNCHANGED dqueue
    /\ fbefore' = [fbefore EXCEPT ![f] = SeqToSet(enqueued)]
    /\ UNCHANGED <<running, finished, aresult, enqueued, started, acked, worker>>
    /\ UNCHANGED <<batchVars, codecVars, payVars, negVars, sessVars, mktVars>>

\* (mutant) rx.await resolves only when the worker has sent the acknowledgement
ResolvedOnAckOnly(f) == f \in acked

\* `let _ = rx.await` of flush f resolves: Ok(()) when the worker has sent the
\* acknowledgement, Err(Canceled) when the Sync entry was dropped with the
\* worker's receiver.
Resolved(f) == f \in acked \/ worker = "stopped"

\* DropList::flush resumes: rx.await has resolved.
FlushReturn(f) ==
    /\ fstate[f] = "waiting"
    /\ Resolved(f)
    /\ fstate' = [fstate EXCEPT ![f] = "returned"]
    /\ UNCHANGED <<dqueue, running, finished, aresult, enqueued, started, fbefore, acked, worker>>
    /\ UNCHANGED <<batchVars, codecVars, payVars, negVars, sessVars, mktVars>>

\* (mutant) the worker takes the next command while an action is still running
WorkerAtRecvSpawning == TRUE

\* The worker is at rx.next().await: `f.await` of the previous action is over.
WorkerAtRecv == running = {}

\* drop_task loop: rx.next() yields a command; DropAction starts f, Sync acknowledges.
WorkerRecv ==
    /\ worker = "running"
    /\ WorkerAtRecv
    /\ dqueue # <<>>
    /\ dqueue' = Tail(dqueue)
    /\ IF Head(dqueue).type = "DropAction"
       THEN /\ running' = running \cup {Head(dqueue).id}
            /\ started' = Append(started, Head(dqueue).id)
            /\ UNCHANGED acked
       ELSE /\ acked' = acked \cup {Head(dqueue).id}
            /\ UNCHANGED <<running, started>>
    /\ UNCHANGED <<finished, aresult, enqueued, fstate, fbefore, worker>>
    /\ UNCHANGED <<batchVars, codecVars, payVars, negVars, sessVars, mktVars>>

\* (mutant) the worker stays with an action that failed
StuckOnError(run, a, outcome) == IF outcome = "err" THEN run ELSE run \ {a}

\* `f.await` in the worker returns (): the wrapper made by async_drop has
\* logged an Err and the worker goes back to rx.next().
AfterAction(run, a, outcome) == run \ {a}

\* The running action's future completes; an Err is logged inside the wrapper.
ActionCompletes(a, outcome) ==
    /\ a \in running
    /\ running' = AfterAction(running, a, outcome)
    /\ finished' = finished \cup {a}
    /\ aresult' = [aresult EXCEPT ![a] = outcome]
    /\ UNCHANGED <<dqueue, enqueued, started, fstate, fbefore, acked, worker>>
    /\ UNCHANGED <<batchVars, codecVars, payVars, negVars, sessVars, mktVars>>

\* The task spawned by drop_task is dropped before its loop ended (its
\* LocalSet is torn down): the action it was awaiting is dropped with it, and
\* so are the receiver and every command still queued, the acknowledgement
\* senders of the queued Sync entries included.
WorkerStops ==
    /\ worker = "running"
    /\ worker' = "stopped"
    /\ dqueue' = <<>>
    /\ running' = {}
    /\ UNCHANGED <<finished, aresult, enqueued, started, fstate, fbefore, acked>>
    /\ UNCHANGED <<batchVars, codecVars, payVars, negVars, sessVars, mktVars>>

NextDrop ==
    \/ \E a \in ActionIds : AsyncDrop(a)
    \/ \E f \in FlushIds : FlushCall(f)
    \/ \E f \in FlushIds : FlushReturn(f)
    \/ WorkerRecv
    \/ \E a \in ActionIds, outcome \in {"ok", "err"} : ActionCompletes(a, outcome)

(***************************************************************************)
(* Handles of remote resources and Session::with: rest.rs, rest/market.rs, *)
(* rest/activity.rs, rest/sgx.rs                                           *)
(***************************************************************************)
\* Number of handles created in one run.
MaxHandles == 2
\* Largest number of holders of one shared handle.
MaxHolders == 2
\* Number of calls made directly on one CancelableDropList.
MaxCalls == 2

\* A handle's deferred action carries the handle's number.
HandleIds == 1..MaxHandles

\* The flush() call that Session::with makes.
WithFlush == 1

\* What a handle stands for, named by the call that makes it.
SharedKinds == {"subscribe_demand", "subscription", "create_agreement"}
ActivityKinds == {"create_activity", "create_secure_activity", "attach_to_activity"}

\* (mutant) no activity is given the session's drop list
DropListOfNone(kind) == "None"

\* The drop list a constructor hands to the handle: Market::subscribe_demand,
\* Session::create_activity and Session::create_secure_activity pass the
\* session's list; Market::subscription, Proposal::create_agreement and
\* attach_to_activity pass none.
DropListOf(kind) ==
    IF kind \in {"subscribe_demand", "create_activity", "create_secure_activity"}
    THEN "Some" ELSE "None"

\* (mutant) the cleanup runs on every release
LastHolderAlways(w, o) == TRUE

\* Arc: the inner value is dropped when no holder is left.
LastHolder(w, o) == w + o = 0

Holders(h) == hwork[h] + hother[h]

\* Those who can hold a handle now: the workload only while with runs it.
Owners == IF wstate = "running" THEN {"work", "other"} ELSE {"other"}

InitSess ==
    /\ hkind = [h \in HandleIds |-> "none"]
    /\ hdrop = [h \in HandleIds |-> "None"]
    /\ hwork = [h \in HandleIds |-> 0]
    /\ hother = [h \in HandleIds |-> 0]
    /\ wstate = "idle"
    /\ wwinner = "-"
    /\ wresult = "-"
    /\ wdropped = {}
    /\ hcalls = [h \in HandleIds |-> <<>>]

\* One more holder of h for `who`.
WithHolder(f, h, who, w) == IF who = w THEN [f EXCEPT ![h] = @ + 1] ELSE f

\* One holder of h fewer for `who`.
WithoutHolder(f, h, who, w) == IF who = w THEN [f EXCEPT ![h] = @ - 1] ELSE f

\* (mutant) take leaves the list in the cell
take_copy(list) == list

\* CancelableDropList::take, Option::take: what is left in the cell
take(list) == "None"

\* Drop for SubscriptionInner, AgreementInner, DefaultActivity, SgxActivity:
\* the handles of hs, in this order, lose their last holder.  Gives the drop
\* lists, the queue and the record of registered actions afterwards.
RECURSIVE DropHandles(_, _)
DropHandles(st, hs) ==
    IF hs = <<>> THEN st
    ELSE LET h == Head(hs)
         IN  DropHandles(
                 IF st.hdrop[h] = "Some"
                 THEN [hdrop |-> [st.hdrop EXCEPT ![h] = take(@)],
                       dqueue |-> Append(st.dqueue, [type |-> "DropAction", id |-> h]),
                       enqueued |-> Append(st.enqueued, h)]
                 ELSE st,
                 Tail(hs))

DropState == [hdrop |-> hdrop, dqueue |-> dqueue, enqueued |-> enqueued]

\* A constructor succeeds: subscribe_demand, subscription, create_activity,
\* create_secure_activity or attach_to_activity.
CreateHandle(h, kind, who) ==
    /\ hkind[h] = "none"
    /\ \A g \in HandleIds : g < h => hkind[g] # "none"
    /\ kind # "create_agreement"
    /\ who \in Owners
    /\ hkind' = [hkind EXCEPT ![h] = kind]
    /\ hdrop' = [hdrop EXCEPT ![h] = DropListOf(kind)]
    /\ hwork' = WithHolder(hwork, h, who, "work")
    /\ hother' = WithHolder(hother, h, who, "other")
    /\ UNCHANGED <<wstate, wwinner, wresult, wdropped>>
    /\ UNCHANGED dropVars
    /\ UNCHANGED <<batchVars, codecVars, payVars, negVars, hcalls, mktVars>>

\* Clone of a Subscription or Agreement, or a Proposal, proposal stream or
\* collector task made from a Subscription: one more holder of the Arc.
CloneHolder(h, who) ==
    /\ hkind[h] \in SharedKinds
    /\ Holders(h) > 0
    /\ Holders(h) < MaxHolders
    /\ who \in Owners
    /\ hwork' = WithHolder(hwork, h, who, "work")
    /\ hother' = WithHolder(hother, h, who, "other")
    /\ UNCHANGED <<hkind, hdrop, wstate, wwinner, wresult, wdropped>>
    /\ UNCHANGED dropVars
    /\ UNCHANGED <<batchVars, codecVars, payVars, negVars, hcalls, mktVars>>

\* The workload moves a handle out (into its output or a spawned task).
HandOver(h) ==
    /\ wstate = "running"
    /\ hwork[h] > 0
    /\ hwork' = [hwork EXCEPT ![h] = @ - 1]
    /\ hother' = [hother EXCEPT ![h] = @ + 1]
    /\ UNCHANGED <<hkind, hdrop, wstate, wwinner, wresult, wdropped>>
    /\ UNCHANGED dropVars
    /\ UNCHANGED <<batchVars, codecVars, payVars, negVars, hcalls, mktVars>>

\* A holder goes out of scope; the last one runs the handle's Drop.
Release(h, who) ==
    /\ who \in Owners
    /\ IF who = "work" THEN hwork[h] > 0 ELSE hother[h] > 0
    /\ hwork' = WithoutHolder(hwork, h, who, "work")
    /\ hother' = WithoutHolder(hother, h, who, "other")
    /\ LET st == IF LastHolder(hwork'[h], hother'[h])
                 THEN DropHandles(DropState, <<h>>) ELSE DropState
       IN  /\ hdrop' = st.hdrop
           /\ dqueue' = st.dqueue
           /\ enqueued' = st.enqueued
    /\ UNCHANGED <<hkind, wstate, wwinner, wresult, wdropped>>
    /\ UNCHANGED <<running, finished, aresult, started, fstate, fbefore, acked, worker>>
    /\ UNCHANGED <<batchVars, codecVars, payVars, negVars, hcalls, mktVars>>

\* Proposal::create_agreement(self): on success an Agreement with an empty
\* drop list; either way the Proposal, a holder of subscription s, is gone.
CreateAgreement(h, s, who, ok) ==
    /\ who \in Owners
    /\ hkind[s] \in {"subscribe_demand", "subscription"}
    /\ IF who = "work" THEN hwork[s] > 0 ELSE hother[s] > 0
    /\ hkind[h] = "none"
    /\ \A g \in HandleIds : g < h => hkind[g] # "none"
    /\ LET made == IF ok THEN {h} ELSE {}
           w1 == WithoutHolder(hwork, s, who, "work")
           o1 == WithoutHolder(hother, s, who, "other")
           hd == [g \in HandleIds |->
                     IF g \in made THEN DropListOf("create_agreement") ELSE hdrop[g]]
           st == IF LastHolder(w1[s], o1[s])
                 THEN DropHandles([DropState EXCEPT !.hdrop = hd], <<s>>)
                 ELSE [DropState EXCEPT !.hdrop = hd]
       IN  /\ hkind' = [g \in HandleIds |->
                           IF g \in made THEN "create_agreement" ELSE hkind[g]]
           /\ hwork' = [g \in HandleIds |->
                           IF g \in made /\ who = "work" THEN 1 ELSE w1[g]]
           /\ hother' = [g \in HandleIds |->
                            IF g \in made /\ who = "other" THEN 1 ELSE o1[g]]
           /\ hdrop' = st.hdrop
           /\ dqueue' = st.dqueue
           /\ enqueued' = st.enqueued
    /\ UNCHANGED <<wstate, wwinner, wresult, wdropped>>
    /\ UNCHANGED <<running, finished, aresult, started, fstate, fbefore, acked, worker>>
    /\ UNCHANGED <<batchVars, codecVars, payVars, negVars, hcalls, mktVars>>

\* The constructors that give the handle a CancelableDropList.
CancelableKinds == {"subscribe_demand", "subscription", "create_secure_activity"}

\* CancelableDropList::async_drop called on the list of h: the list is taken
\* and, if there was one, the action is sent to it.
CancelableAsyncDrop(h) ==
    /\ hkind[h] \in CancelableKinds
    /\ Len(hcalls[h]) < MaxCalls
    /\ hcalls' = [hcalls EXCEPT ![h] = Append(@, "async_drop")]
    /\ LET st == DropHandles(DropState, <<h>>)
       IN  /\ hdrop' = st.hdrop
           /\ dqueue' = st.dqueue
           /\ enqueued' = st.enqueued
    /\ UNCHANGED <<hkind, hwork, hother, wstate, wwinner, wresult, wdropped>>
    /\ UNCHANGED <<running, finished, aresult, started, fstate, fbefore, acked, worker>>
    /\ UNCHANGED <<batchVars, codecVars, payVars, negVars, mktVars>>

\* CancelableDropList::cancel
Cancel(h) ==
    /\ hkind[h] \in CancelableKinds
    /\ Len(hcalls[h]) < MaxCalls
    /\ hcalls' = [hcalls EXCEPT ![h] = Append(@, "cancel")]
    /\ hdrop' = [hdrop EXCEPT ![h] = take(@)]
    /\ UNCHANGED <<hkind, hwork, hother, wstate, wwinner, wresult, wdropped>>
    /\ UNCHANGED dropVars
    /\ UNCHANGED <<batchVars, codecVars, payVars, negVars, mktVars>>

\* Activity::destroy of DefaultActivity and SgxActivity: destroy_activity is
\* called on the remote; the handle and its drop list stay as they are.
Destroy(h) ==
    /\ hkind[h] \in ActivityKinds
    /\ Holders(h) > 0
    /\ Len(hcalls[h]) < MaxCalls
    /\ hcalls' = [hcalls EXCEPT ![h] = Append(@, "destroy_activity")]
    /\ UNCHANGED <<hkind, hdrop, hwork, hother, wstate, wwinner, wresult, wdropped>>
    /\ UNCHANGED dropVars
    /\ UNCHANGED <<batchVars, codecVars, payVars, negVars, mktVars>>

\* Activities, destroy() on them, their end of scope, and the worker.
NextDestroy ==
    \/ \E h \in HandleIds, kind \in ActivityKinds : CreateHandle(h, kind, "other")
    \/ \E h \in HandleIds : Destroy(h)
    \/ \E h \in HandleIds : Release(h, "other")
    \/ WorkerRecv
    \/ \E a \in ActionIds, outcome \in {"ok", "err"} : ActionCompletes(a, outcome)

\* Handles with a CancelableDropList, the calls on the list, and the worker.
NextCancelable ==
    \/ \E h \in HandleIds, kind \in CancelableKinds : CreateHandle(h, kind, "other")
    \/ \E h \in HandleIds : CancelableAsyncDrop(h)
    \/ \E h \in HandleIds : Cancel(h)
    \/ WorkerRecv
    \/ \E a \in ActionIds, outcome \in {"ok", "err"} : ActionCompletes(a, outcome)

\* (mutant) a failed workload is reported like an interrupt
WithResultCollapsed(winner, outcome) ==
    IF winner = "work" /\ outcome = "Some(Ok)" THEN outcome ELSE "None"

\* The match on select's result: Left is Some(output), Right is None.
WithResult(winner, outcome) == IF winner = "work" THEN outcome ELSE "None"

\* Session::with is called: select(work, ctrl_c) starts polling the workload.
WithStart ==
    /\ wstate = "idle"
    /\ wstate' = "running"
    /\ UNCHANGED <<hkind, hdrop, hwork, hother, wwinner, wresult, wdropped>>
    /\ UNCHANGED dropVars
    /\ UNCHANGED <<batchVars, codecVars, payVars, negVars, hcalls, mktVars>>

\* The orders in which the handles of a set can be dropped.
Orders(S) == {o \in SeqsUpTo(S, Cardinality(S)) :
                 Len(o) = Cardinality(S) /\ SeqToSet(o) = S}

\* The handles all of whose holders the workload owns.
WorkloadOnly == {h \in HandleIds : hwork[h] > 0 /\ hother[h] = 0}

\* select returns: the workload finished (Left) or ctrl_c did (Right).  The
\* block ends, which drops the workload with everything it still owns; then
\* flush() sends its Sync.
WithSelect(winner, outcome, order) ==
    /\ wstate = "running"
    /\ order \in Orders(WorkloadOnly)
    /\ wwinner' = winner
    /\ wresult' = WithResult(winner, outcome)
    /\ wdropped' = SeqToSet(order)
    /\ hwork' = [h \in HandleIds |-> 0]
    /\ LET st == DropHandles(DropState, order)
       IN  /\ hdrop' = st.hdrop
           /\ enqueued' = st.enqueued
           /\ dqueue' = Append(st.dqueue, [type |-> "Sync", id |-> WithFlush])
           /\ fbefore' = [fbefore EXCEPT ![WithFlush] = SeqToSet(st.enqueued)]
    /\ fstate' = [fstate EXCEPT ![WithFlush] = "waiting"]
    /\ wstate' = "flushing"
    /\ UNCHANGED <<hkind, hother>>
    /\ UNCHANGED <<running, finished, aresult, started, acked, worker>>
    /\ UNCHANGED <<batchVars, codecVars, payVars, negVars, hcalls, mktVars>>

\* flush() resumes and with returns its result.
WithReturn ==
    /\ wstate = "flushing"
    /\ Resolved(WithFlush)
    /\ wstate' = "returned"
    /\ fstate' = [fstate EXCEPT ![WithFlush] = "returned"]
    /\ UNCHANGED <<hkind, hdrop, hwork, hother, wwinner, wresult, wdropped>>
    /\ UNCHANGED <<dqueue, running, finished, aresult, enqueued, started, fbefore, acked, worker>>
    /\ UNCHANGED <<batchVars, codecVars, payVars, negVars, hcalls, mktVars>>

\* A session's handles, Session::with (the only caller of flush in the crate,
\* rest.rs:63) and the worker of its drop list.
NextSess ==
    \/ \E h \in HandleIds, kind \in SharedKinds \cup ActivityKinds, who \in {"work", "other"} :
           CreateHandle(h, kind, who)
    \/ \E h \in HandleIds, who \in {"work", "other"} : CloneHolder(h, who)
    \/ \E h \in HandleIds : HandOver(h)
    \/ \E h \in HandleIds, who \in {"work", "other"} : Release(h, who)
    \/ \E h, s \in HandleIds, who \in {"work", "other"}, ok \in BOOLEAN :
           CreateAgreement(h, s, who, ok)
    \/ WithStart
    \/ \E winner \in {"work", "ctrl_c"}, outcome \in {"Some(Ok)", "Some(Err)"},
          order \in Orders(WorkloadOnly) : WithSelect(winner, outcome, order)
    \/ WithReturn
    \/ WorkerRecv
    \/ \E a \in ActionIds, outcome \in {"ok", "err"} : ActionCompletes(a, outcome)

(***************************************************************************)
(* Message framing codec: rest/streaming/capture_messages.rs, messaging.rs *)
(* Bytes are numbers.  Messages are values of the message enum of the      *)
(* tests, Messages::Info(String), written by serde_json as {"Info":"..."}. *)
(***************************************************************************)
STX == 2
ETX == 3
Space == 32
Quote == 34
Backslash == 92

\* Longest free text before and after the frame.
MaxText == 1
\* Longest string carried by a message.
MaxMsgLen == 1

\* Characters of free text (no marker bytes) and of message strings (which
\* may hold marker bytes, quotes and backslashes).
TextBytes == {97, Space}
MsgChars == {97, STX, ETX, Quote, Backslash}

\* serde_json string escaping: quote and backslash get a backslash, control
\* characters become \u00XX; everything else is written as it is.
EscapeChar(c) ==
    IF c = Quote THEN <<Backslash, Quote>>
    ELSE IF c = Backslash THEN <<Backslash, Backslash>>
    ELSE IF c = STX THEN <<Backslash, 117, 48, 48, 48, 50>>
    ELSE IF c = ETX THEN <<Backslash, 117, 48, 48, 48, 51>>
    ELSE <<c>>

RECURSIVE EscapeString(_)
EscapeString(str) ==
    IF str = <<>> THEN <<>> ELSE EscapeChar(Head(str)) \o EscapeString(Tail(str))

\* {"Info":"
InfoOpen == <<123, Quote, 73, 110, 102, 111, Quote, 58, Quote>>
\* "}
InfoClose == <<Quote, 125>>

\* serde_json::to_vec(msg)
ToJson(msg) == InfoOpen \o EscapeString(msg) \o InfoClose

\* encode_message: the JSON text between the two control characters
encode_message(msg) == <<STX>> \o ToJson(msg) \o <<ETX>>

IsWhitespace(c) == c \in {Space, 9, 10, 13}

RECURSIVE SkipWhitespace(_)
SkipWhitespace(bytes) ==
    IF bytes # <<>> /\ IsWhitespace(Head(bytes)) THEN SkipWhitespace(Tail(bytes)) ELSE bytes

RECURSIVE ParseString(_, _)
\* The body of a JSON string up to its closing quote: the characters read and
\* the bytes left, or a failure (raw control character, bad escape, no end).
ParseString(bytes, acc) ==
    IF bytes = <<>> THEN [ok |-> FALSE, str |-> <<>>, rest |-> <<>>]
    ELSE IF Head(bytes) = Quote THEN [ok |-> TRUE, str |-> acc, rest |-> Tail(bytes)]
    ELSE IF Head(bytes) < Space THEN [ok |-> FALSE, str |-> <<>>, rest |-> <<>>]
    ELSE IF Head(bytes) = Backslash
         THEN IF Len(bytes) >= 2 /\ bytes[2] \in {Quote, Backslash}
              THEN ParseString(SubSeq(bytes, 3, Len(bytes)), Append(acc, bytes[2]))
              ELSE IF Len(bytes) >= 6 /\ SubSeq(bytes, 2, 5) = <<117, 48, 48, 48>>
                      /\ bytes[6] \in {50, 51}
                   THEN ParseString(SubSeq(bytes, 7, Len(bytes)),
                                    Append(acc, IF bytes[6] = 50 THEN STX ELSE ETX))
                   ELSE [ok |-> FALSE, str |-> <<>>, rest |-> <<>>]
         ELSE ParseString(Tail(bytes), Append(acc, Head(bytes)))

\* (mutant) every payload decodes, to the empty message
deserialize_anything(bytes) == [ok |-> TRUE, msg |-> <<>>]

\* MessageProcessor::deserialize_message: serde_json::from_slice, which skips
\* surrounding whitespace and fails on anything that is not one message.
deserialize_message(bytes) ==
    LET body == SkipWhitespace(bytes)
        Fail == [ok |-> FALSE, msg |-> <<>>]
    IN  IF Len(body) < Len(InfoOpen) \/ SubSeq(body, 1, Len(InfoOpen)) # InfoOpen
        THEN Fail
        ELSE LET p == ParseString(SubSeq(body, Len(InfoOpen) + 1, Len(body)), <<>>)
             IN  IF ~p.ok THEN Fail
                 ELSE IF p.rest # <<>> /\ Head(p.rest) = 125
                         /\ SkipWhitespace(Tail(p.rest)) = <<>>
                      THEN [ok |-> TRUE, msg |-> p.str]
                      ELSE Fail

\* (mutant) the last occurrence instead of the first
LastPosition(output, b) ==
    IF \E i \in 1..Len(output) : output[i] = b
    THEN CHOOSE i \in 1..Len(output) :
             output[i] = b /\ \A j \in (i + 1)..Len(output) : output[j] # b
    ELSE 0

\* output.iter().position(|byte| *byte == b): 1-based, 0 when absent
Position(output, b) ==
    IF \E i \in 1..Len(output) : output[i] = b
    THEN CHOOSE i \in 1..Len(output) : output[i] = b /\ \A j \in 1..(i - 1) : output[j] # b
    ELSE 0

\* (mutant) nothing is pushed at the start marker
StartFrameNoPad(buf) == buf

\* `self.buffer.push(' ' as u8)` when the start marker is seen
StartFrame(buf) == Append(buf, Space)

RECURSIVE ConsumeLoop(_, _, _, _)
\* The while loop of consume_message over the rest of the chunk.
ConsumeLoop(output, buf, leftovers, sent) ==
    IF output = <<>> THEN [buffer |-> buf, leftovers |-> leftovers, sent |-> sent]
    ELSE IF Len(buf) > 0
         THEN LET idx == Position(output, ETX)
              IN  IF idx # 0
                  THEN LET d == deserialize_message(buf \o SubSeq(output, 1, idx - 1))
                       IN  ConsumeLoop(SubSeq(output, idx + 1, Len(output)), <<>>, leftovers,
                                       IF d.ok THEN Append(sent, d.msg) ELSE sent)
                  ELSE ConsumeLoop(<<>>, buf \o output, leftovers, sent)
         ELSE LET idx == Position(output, STX)
              IN  IF idx # 0
                  THEN ConsumeLoop(SubSeq(output, idx + 1, Len(output)), StartFrame(buf),
                                   leftovers \o SubSeq(output, 1, idx - 1), sent)
                  ELSE ConsumeLoop(<<>>, buf, leftovers \o output, sent)

\* MessageProcessor::consume_message
consume_message(buf, output) == ConsumeLoop(output, buf, <<>>, <<>>)

Texts == SeqsUpTo(TextBytes, MaxText)
MsgStrings == SeqsUpTo(MsgChars, MaxMsgLen)

\* The bytes between the two markers of a frame, whatever they are.
Frame(payload) == <<STX>> \o payload \o <<ETX>>

\* No frame before the frame of M.
NoFrame == [bytes |-> <<>>, ok |-> FALSE, msg |-> <<>>]

\* Messages of the first frame, and payloads that are no message: nothing,
\* text, a JSON text that is cut short, a message followed by more text.
FrameMsgs == {<<>>, <<97>>, <<ETX>>}
BadPayloads == {<<>>, <<97>>, InfoOpen \o <<97>>, ToJson(<<>>) \o <<97>>}

\* The first frames: written by encode_message, or with a payload that
\* serde_json rejects.
FirstFrames ==
    {[bytes |-> encode_message(m), ok |-> TRUE, msg |-> m] : m \in FrameMsgs}
        \cup {[bytes |-> Frame(b), ok |-> FALSE, msg |-> <<>>] : b \in BadPayloads}

IdleCodec ==
    /\ cmsg = <<>>
    /\ cprefix = <<>>
    /\ csuffix = <<>>
    /\ cfirst = NoFrame
    /\ cmid = <<>>
    /\ cinput = <<>>
    /\ cpos = 0
    /\ buffer = <<>>
    /\ retained = <<>>
    /\ lastOut = "-"
    /\ cutAtMarker = FALSE
    /\ notified = <<>>
    /\ polled = [item |-> "-", result |-> "-"]

InitCodec ==
    /\ cmsg \in MsgStrings
    /\ cprefix \in Texts
    /\ csuffix \in Texts
    /\ cfirst = NoFrame
    /\ cmid = <<>>
    /\ cinput = cprefix \o encode_message(cmsg) \o csuffix
    /\ cpos = 0
    /\ buffer = <<>>
    /\ retained = <<>>
    /\ lastOut = "-"
    /\ cutAtMarker = FALSE
    /\ notified = <<>>
    /\ polled = [item |-> "-", result |-> "-"]

\* An output stream of two frames: text, a first frame, text, the frame of M.
InitFrames ==
    /\ cmsg \in FrameMsgs
    /\ cprefix \in {<<>>, <<97>>}
    /\ csuffix = <<>>
    /\ cfirst \in FirstFrames
    /\ cmid \in Texts
    /\ cinput = cprefix \o cfirst.bytes \o cmid \o encode_message(cmsg) \o csuffix
    /\ cpos = 0
    /\ buffer = <<>>
    /\ retained = <<>>
    /\ lastOut = "-"
    /\ cutAtMarker = FALSE
    /\ notified = <<>>
    /\ polled = [item |-> "-", result |-> "-"]

\* The match at the end of poll_next on `leftovers`, an Option<Option<RuntimeEvent>>:
\* the outer Option is the inner stream's item ("end" = None), the inner one
\* what the closure made of it.
PollResult(item, out) ==
    IF item = "end" THEN "Pending"
    ELSE IF out = "Some" THEN "Ready(Some)" ELSE "Ready(None)"

\* poll_next when the inner stream gives a StdOut event: the next k bytes arrive
\* as one output chunk and go through consume_message.
ConsumeChunk(k) ==
    /\ cpos + k <= Len(cinput)
    /\ LET r == consume_message(buffer, SubSeq(cinput, cpos + 1, cpos + k))
       IN  /\ buffer' = r.buffer
           /\ retained' = retained \o r.leftovers
           /\ lastOut' = IF Len(r.leftovers) > 0 THEN "Some" ELSE "None"
           /\ notified' = notified \o r.sent
           /\ polled' = [item |-> "StdOut",
                         result |-> PollResult("StdOut", IF Len(r.leftovers) > 0
                                                         THEN "Some" ELSE "None")]
    /\ cpos' = cpos + k
    /\ cutAtMarker' = (cutAtMarker \/ cpos + k = Len(cprefix) + 1)
    /\ UNCHANGED <<cmsg, cprefix, csuffix, cfirst, cmid, cinput>>
    /\ UNCHANGED <<batchVars, dropVars, payVars, negVars, sessVars, mktVars>>

\* poll_next when the inner stream gives an event that is not StdOut: the
\* event is passed on as it is.
PassEvent ==
    /\ cinput # <<>>
    /\ cpos < Len(cinput)
    /\ polled' = [item |-> "other", result |-> PollResult("other", "Some")]
    /\ UNCHANGED <<cmsg, cprefix, csuffix, cfirst, cmid, cinput, cpos, buffer, retained,
                   lastOut, cutAtMarker, notified>>
    /\ UNCHANGED <<batchVars, dropVars, payVars, negVars, sessVars, mktVars>>

\* poll_next when the inner stream has ended (it gave Ready(None)).
InnerEnded ==
    /\ cinput # <<>>
    /\ cpos = Len(cinput)
    /\ polled' = [item |-> "end", result |-> PollResult("end", "None")]
    /\ UNCHANGED <<cmsg, cprefix, csuffix, cfirst, cmid, cinput, cpos, buffer, retained,
                   lastOut, cutAtMarker, notified>>
    /\ UNCHANGED <<batchVars, dropVars, payVars, negVars, sessVars, mktVars>>

NextCodec ==
    \/ \E k \in 1..Len(cinput) : ConsumeChunk(k)
    \/ PassEvent
    \/ InnerEnded

\* The chunks of a stream of StdOut events alone.
NextFrames == \E k \in 1..Len(cinput) : ConsumeChunk(k)

(***************************************************************************)
(* Payment manager: requestor/payment_manager.rs                           *)
(***************************************************************************)
Agreements == {"a1", "a2"}
Amounts == {1, 2}
AllocationId == "alloc"
\* allocation.total_amount, which PaymentManager::new stores.
TotalAmount == 2

\* Longest page of events one fetch returns.
MaxPage == 2
\* Number of invoice events the provider side issues in one run.
MaxInvoiceEvents == 2
\* Number of debit note events issued in one run.
MaxDebitEvents == 0
\* An invoice event: InvoiceReceivedEvent with the invoice get_invoice returns
\* for it, or an event of another type.
InvoiceEvents ==
    [type : {"received"}, agreement_id : Agreements, amount : Amounts]
        \cup {[type |-> "other", agreement_id |-> "-", amount |-> 0]}

InvoicePages == SeqsUpTo(InvoiceEvents, MaxPage)

\* The fields of the manager the invoice handler can touch.
ManagerState ==
    [valid_agreements |-> valid_agreements, amount_paid |-> amount_paid,
     last_invoice_event |-> last_invoice_event,
     last_debit_note_event |-> last_debit_note_event, calls |-> pcalls]

\* (mutant) the agreement is looked up but left in the set
KeepAgreement(valid, a) == valid

\* `this.valid_agreements.remove(&invoice.agreement_id)`: the set afterwards
RemoveAgreement(valid, a) == valid \ {a}

\* (mutant) the paid total is not updated
AddNothing(paid, amount) == paid

\* `this.amount_paid += invoice.amount.clone()`
AddPaid(paid, amount) == paid + amount

\* model::payment::Acceptance and the accept_invoice call spawned with it
AcceptCall(inv) ==
    [op |-> "accept_invoice", invoice_id |-> inv.invoice_id,
     total_amount_accepted |-> inv.amount, allocation_id |-> AllocationId,
     rejection_reason |-> "-", message |-> "-"]

\* (mutant) the rejection reports the invoice's amount as accepted
RejectCallFullAmount(inv) ==
    [op |-> "reject_invoice", invoice_id |-> inv.invoice_id,
     total_amount_accepted |-> inv.amount, allocation_id |-> "-",
     rejection_reason |-> "UnsolicitedService",
     message |-> "invoice received before results"]

\* model::payment::Rejection and the reject_invoice call spawned with it
RejectCall(inv) ==
    [op |-> "reject_invoice", invoice_id |-> inv.invoice_id,
     total_amount_accepted |-> 0, allocation_id |-> "-",
     rejection_reason |-> "UnsolicitedService",
     message |-> "invoice received before results"]

\* The body of `for invoice in invoices` for one invoice.
ProcessInvoice(st, inv) ==
    IF inv.agreement_id \in st.valid_agreements
    THEN [st EXCEPT !.valid_agreements = RemoveAgreement(@, inv.agreement_id),
                    !.amount_paid = AddPaid(@, inv.amount),
                    !.calls = Append(@, AcceptCall(inv))]
    ELSE [st EXCEPT !.calls = Append(@, RejectCall(inv))]

RECURSIVE ProcessInvoices(_, _, _)
\* The loop over the fetched invoices: the state and the log afterwards.
ProcessInvoices(st, log, invoices) ==
    IF invoices = <<>> THEN [st |-> st, log |-> log]
    ELSE LET inv == Head(invoices)
             after == ProcessInvoice(st, inv)
         IN  ProcessInvoices(after,
                             Append(log, [kind |-> "invoice", agreement_id |-> inv.agreement_id,
                                          invoice |-> inv, before |-> st, after |-> after]),
                             Tail(invoices))

RECURSIVE NewInvoices(_, _, _)
\* The first loop of the fetch: get_invoice for every "received" event of the
\* page; the invoice id is the event's position in the feed.
NewInvoices(page, ts, i) ==
    IF i > Len(page) THEN <<>>
    ELSE (IF page[i].type = "received"
          THEN << [invoice_id |-> ts + i, agreement_id |-> page[i].agreement_id,
                   amount |-> page[i].amount] >>
          ELSE <<>>)
         \o NewInvoices(page, ts, i + 1)

\* The history of runs is kept only where a specification starts with it on.
NotRecorded == [invoices |-> "off", debit_notes |-> "off"]
NoRunYet == [invoices |-> "-", debit_notes |-> "-"]
Ran(cycle, outcome) == IF prun = NotRecorded THEN prun ELSE [prun EXCEPT ![cycle] = outcome]

\* PaymentManager::new and Actor::started: nothing paid, no agreement marked,
\* both cycles about to run.
NewManager(runs) ==
    /\ valid_agreements = {}
    /\ amount_paid = 0
    /\ last_invoice_event = 0
    /\ last_debit_note_event = 0
    /\ ipc = "scheduled"
    /\ its = 0
    /\ dpc = "scheduled"
    /\ dts = 0
    /\ pcalls = <<>>
    /\ plog = <<>>
    /\ prun = runs

InitPay == NewManager(NotRecorded)

InitPayLive == NewManager(NoRunYet)

\* (mutant) a run that failed is not followed by another
AfterRunStopOnError(outcome) == IF outcome = "err" THEN "stopped" ELSE "scheduled"

\* The end of both `then` closures: ctx.run_later(10 s, ...) after the match
\* on the run's result, whatever it was.
AfterRun(outcome) == "scheduled"

\* Handler<AcceptAgreement>::handle.  Inserting an id that is already in the
\* set leaves the manager as it is; the inserts that change it are explored.
AcceptAgreement(a) ==
    /\ a \notin valid_agreements
    /\ valid_agreements' = valid_agreements \cup {a}
    /\ plog' = Append(plog, [kind |-> "mark", agreement_id |-> a, invoice |-> "-",
                             before |-> "-", after |-> "-"])
    /\ UNCHANGED <<amount_paid, last_invoice_event, last_debit_note_event,
                   ipc, its, dpc, dts, pcalls, prun>>
    /\ UNCHANGED <<batchVars, dropVars, codecVars, negVars, sessVars, mktVars>>

\* (mutant) the timestamp of the fetched events is not kept
LastEventDateKept(ts, page) == ts

\* `ts = event.event_date` for every event of the page: the date of the last
\* one, or the old timestamp for an empty page.  Dates are feed positions.
LastEventDate(ts, page) == ts + Len(page)

\* update_invoices is called: `ts` is read and the fetch is spawned.
UpdateInvoicesStart ==
    /\ ipc = "scheduled"
    /\ ipc' = "fetching"
    /\ its' = last_invoice_event
    /\ UNCHANGED <<valid_agreements, amount_paid, last_invoice_event,
                   last_debit_note_event, dpc, dts, pcalls, plog, prun>>
    /\ UNCHANGED <<batchVars, dropVars, codecVars, negVars, sessVars, mktVars>>

\* The fetch succeeded with `page`; the `then` closure stores the timestamp of
\* the last event, decides every invoice and schedules the next run.
UpdateInvoicesOk(page) ==
    /\ ipc = "fetching"
    /\ its + Len(page) <= MaxInvoiceEvents
    /\ LET r == ProcessInvoices([ManagerState EXCEPT
                                     !.last_invoice_event = LastEventDate(its, page)],
                                plog, NewInvoices(page, its, 1))
       IN  /\ valid_agreements' = r.st.valid_agreements
           /\ amount_paid' = r.st.amount_paid
           /\ last_invoice_event' = r.st.last_invoice_event
           /\ last_debit_note_event' = r.st.last_debit_note_event
           /\ pcalls' = r.st.calls
           /\ plog' = r.log
    /\ ipc' = AfterRun("ok")
    /\ prun' = Ran("invoices", "ok")
    /\ UNCHANGED <<its, dpc, dts>>
    /\ UNCHANGED <<batchVars, dropVars, codecVars, negVars, sessVars, mktVars>>

\* The fetch (or one of its get_invoice calls) failed: logged, next run scheduled.
UpdateInvoicesErr ==
    /\ ipc = "fetching"
    /\ ipc' = AfterRun("err")
    /\ prun' = Ran("invoices", "err")
    /\ UNCHANGED <<valid_agreements, amount_paid, last_invoice_event,
                   last_debit_note_event, its, dpc, dts, pcalls, plog>>
    /\ UNCHANGED <<batchVars, dropVars, codecVars, negVars, sessVars, mktVars>>

\* update_debit_notes is called.
UpdateDebitNotesStart ==
    /\ dpc = "scheduled"
    /\ dpc' = "fetching"
    /\ dts' = last_debit_note_event
    /\ UNCHANGED <<valid_agreements, amount_paid, last_invoice_event,
                   last_debit_note_event, ipc, its, pcalls, plog, prun>>
    /\ UNCHANGED <<batchVars, dropVars, codecVars, negVars, sessVars, mktVars>>

\* The debit note fetch returned n events: the timestamp advances to the last.
UpdateDebitNotesOk(n) ==
    /\ dpc = "fetching"
    /\ dts + n <= MaxDebitEvents
    /\ last_debit_note_event' = dts + n
    /\ dpc' = AfterRun("ok")
    /\ prun' = Ran("debit_notes", "ok")
    /\ UNCHANGED <<valid_agreements, amount_paid, last_invoice_event,
                   ipc, its, dts, pcalls, plog>>
    /\ UNCHANGED <<batchVars, dropVars, codecVars, negVars, sessVars, mktVars>>

\* The debit note fetch failed.
UpdateDebitNotesErr ==
    /\ dpc = "fetching"
    /\ dpc' = AfterRun("err")
    /\ prun' = Ran("debit_notes", "err")
    /\ UNCHANGED <<valid_agreements, amount_paid, last_invoice_event,
                   last_debit_note_event, ipc, its, dts, pcalls, plog>>
    /\ UNCHANGED <<batchVars, dropVars, codecVars, negVars, sessVars, mktVars>>

NextPay ==
    \/ \E a \in Agreements : AcceptAgreement(a)
    \/ UpdateInvoicesStart
    \/ \E page \in InvoicePages : UpdateInvoicesOk(page)
    \/ UpdateInvoicesErr
    \/ UpdateDebitNotesStart
    \/ \E n \in 0..MaxPage : UpdateDebitNotesOk(n)
    \/ UpdateDebitNotesErr

(***************************************************************************)
(* Proposal negotiation: rest/market.rs (negotiated_proposals) and lib.rs  *)
(* (the loop of Requestor::started)                                        *)
(***************************************************************************)
\* The demand the caller subscribed with.
Demand == [properties |-> "demand-properties", constraints |-> "demand-constraints"]

\* Number of events the market delivers in one run.
MaxIssued == 3
\* Longest list of events one collect call returns.
MaxEvents == 1
\* Largest number of tasks (providers wanted) of a Requestor.
MaxTarget == 1
\* Seconds of the Requestor loop that are explored.
MaxElapsed == 34
\* The Requestor's timeout in seconds: with_timeout(20 s).
Timeout == 20

\* What a proposal can look like: with or without a previous-proposal id, its
\* state (absent, Initial, Draft), and whether counter_demand can build a
\* counter-proposal from it.
ProposalShapes ==
    { [prev |-> FALSE, state |-> "Initial", counterable |-> TRUE],
      [prev |-> FALSE, state |-> "None", counterable |-> TRUE],
      [prev |-> FALSE, state |-> "Initial", counterable |-> FALSE],
      [prev |-> FALSE, state |-> "Draft", counterable |-> TRUE],
      [prev |-> TRUE, state |-> "Draft", counterable |-> TRUE],
      [prev |-> TRUE, state |-> "Initial", counterable |-> TRUE] }

EventShapes == [type : {"ProposalEvent"}, shape : ProposalShapes]
                   \cup {[type |-> "Other", shape |-> "-"]}

EventLists == SeqsUpTo(EventShapes, MaxEvents)

\* The proposal an event carries; its id is the event's number.
ProposalOf(ev, id) ==
    [id |-> id, prev |-> ev.shape.prev, state |-> ev.shape.state,
     counterable |-> ev.shape.counterable,
     properties |-> "offer-properties", constraints |-> "offer-constraints"]

RECURSIVE ProposalsOf(_, _, _)
\* the ProposalEvents of a list of events, as proposals, in order
ProposalsOf(events, base, i) ==
    IF i > Len(events) THEN <<>>
    ELSE (IF events[i].type = "ProposalEvent"
          THEN <<ProposalOf(events[i], base + i)>> ELSE <<>>)
         \o ProposalsOf(events, base, i + 1)

\* (mutant) no proposal is taken for a response
is_response_never(p) == FALSE

\* Proposal::is_response
is_response(p) == p.prev

\* (mutant) the counter-proposal repeats the offer's own terms
EchoProposal(p, props, constraints) ==
    [proposal_id |-> p.id, properties |-> p.properties, constraints |-> p.constraints]

\* Proposal::counter_proposal: the NewProposal sent for proposal p
counter_proposal(p, props, constraints) ==
    [proposal_id |-> p.id, properties |-> props, constraints |-> constraints]

\* ya-client's Proposal::counter_demand as lib.rs uses it: the demand's terms
\* as a counter to p
counter_demand(p, demand) ==
    [proposal_id |-> p.id, properties |-> demand.properties,
     constraints |-> demand.constraints]

\* No selection check has been made yet.
NoCheck == [t |-> 0, candidates |-> <<>>, selected |-> FALSE, rounds |-> 0]

\* An agreement task as spawned for a proposal: about to call create_agreement.
NewTask(id) ==
    [id |-> id, pc |-> "create_agreement", created |-> FALSE, confirmed |-> FALSE,
     approved |-> FALSE, activity |-> FALSE]

RECURSIVE NewTasks(_)
NewTasks(ids) == IF ids = <<>> THEN <<>> ELSE <<NewTask(Head(ids))>> \o NewTasks(Tail(ids))

InitNeg ==
    /\ site \in {"market", "requestor"}
    /\ issued = 0
    /\ chan1 = <<>>
    /\ chan2 = <<>>
    /\ consumed = <<>>
    /\ counters = <<>>
    /\ handled = <<>>
    /\ rstate = "WaitForInitialProposals"
    /\ proposals = <<>>
    /\ pooled = {}
    /\ elapsed = 0
    /\ providers_num \in (IF site = "requestor" THEN 0..MaxTarget ELSE {0})
    /\ negotiating = <<>>
    /\ rpc = "running"
    /\ lastCheck = NoCheck
    /\ atasks = <<>>

\* Largest number of tasks for which the selection test is explored.
MaxQuorumTarget == 4
\* collect(.., Some(5)): the most events one collect returns.
MaxCollected == 5

\* The i-th response of a first collect.
Response(i) ==
    [id |-> i, prev |-> TRUE, state |-> "Draft", counterable |-> TRUE,
     properties |-> "offer-properties", constraints |-> "offer-constraints"]

\* A Requestor whose first collect returned at once with k responses: they
\* are all candidates and the first selection check, at 0 s, did not select.
InitSelect ==
    /\ site = "requestor"
    /\ providers_num \in 0..MaxQuorumTarget
    /\ \E k \in 0..MaxCollected :
           /\ issued = k
           /\ handled = [i \in 1..k |->
                            [proposal |-> Response(i), rstate |-> "WaitForInitialProposals"]]
           /\ proposals = [i \in 1..k |-> Response(i)]
           /\ pooled = 1..k
           /\ lastCheck = [t |-> 0, candidates |-> [i \in 1..k |-> i],
                           selected |-> FALSE, rounds |-> 0]
    /\ chan1 = <<>>
    /\ chan2 = <<>>
    /\ consumed = <<>>
    /\ counters = <<>>
    /\ rstate = "WaitForInitialProposals"
    /\ elapsed = 0
    /\ negotiating = <<>>
    /\ rpc = "running"
    /\ atasks = <<>>

IdleNeg ==
    /\ site = "-"
    /\ issued = 0
    /\ chan1 = <<>>
    /\ chan2 = <<>>
    /\ consumed = <<>>
    /\ counters = <<>>
    /\ handled = <<>>
    /\ rstate = "WaitForInitialProposals"
    /\ proposals = <<>>
    /\ pooled = {}
    /\ elapsed = 0
    /\ providers_num = 0
    /\ negotiating = <<>>
    /\ rpc = "running"
    /\ lastCheck = NoCheck
    /\ atasks = <<>>

\* ---- rest/market.rs ----

\* proposals_collector: one successful collect; every ProposalEvent is sent on.
CollectorCollect(events) ==
    /\ site = "market"
    /\ events # <<>>
    /\ issued + Len(events) <= MaxIssued
    /\ issued' = issued + Len(events)
    /\ chan1' = chan1 \o ProposalsOf(events, issued, 1)
    /\ UNCHANGED <<site, chan2, consumed, counters, handled, rstate, proposals, pooled,
                   elapsed, providers_num, negotiating, rpc, lastCheck, atasks>>
    /\ UNCHANGED <<batchVars, dropVars, codecVars, payVars, sessVars, mktVars>>

\* The task of negotiated_proposals takes the next proposal: a response is
\* forwarded, anything else is answered with counter_proposal (whose failure
\* is only logged).
NegotiateNext ==
    /\ site = "market"
    /\ chan1 # <<>>
    /\ chan1' = Tail(chan1)
    /\ handled' = Append(handled, [proposal |-> Head(chan1), rstate |-> "-"])
    /\ IF is_response(Head(chan1))
       THEN /\ chan2' = Append(chan2, Head(chan1))
            /\ UNCHANGED counters
       ELSE /\ counters' = Append(counters,
                                  counter_proposal(Head(chan1), Demand.properties,
                                                   Demand.constraints))
            /\ UNCHANGED chan2
    /\ UNCHANGED <<site, issued, consumed, rstate, proposals, pooled, elapsed,
                   providers_num, negotiating, rpc, lastCheck, atasks>>
    /\ UNCHANGED <<batchVars, dropVars, codecVars, payVars, sessVars, mktVars>>

\* The consumer of negotiated_proposals receives the next proposal.
ConsumerRecv ==
    /\ site = "market"
    /\ chan2 # <<>>
    /\ consumed' = Append(consumed, Head(chan2))
    /\ chan2' = Tail(chan2)
    /\ UNCHANGED <<site, issued, chan1, counters, handled, rstate, proposals, pooled,
                   elapsed, providers_num, negotiating, rpc, lastCheck, atasks>>
    /\ UNCHANGED <<batchVars, dropVars, codecVars, payVars, sessVars, mktVars>>

\* ---- lib.rs ----

\* The state of the loop that one pass over the events changes.
LoopState ==
    [rstate |-> rstate, proposals |-> proposals, pooled |-> pooled,
     counters |-> counters, handled |-> handled]

\* (mutant) initial proposals are answered in every state of the search
CollectingAlways(search) == TRUE

\* `state != AgreementSearchState::WaitForInitialProposals`, negated
Collecting(search) == search = "WaitForInitialProposals"

\* The body of `for e in events` for one ProposalEvent.
HandleProposal(st, p) ==
    LET seen == [st EXCEPT !.handled = Append(@, [proposal |-> p, rstate |-> st.rstate])]
    IN  IF p.state \in {"Initial", "None"}
        THEN IF p.prev THEN seen
             ELSE IF ~Collecting(st.rstate) THEN seen
             ELSE IF ~p.counterable THEN seen
             ELSE [seen EXCEPT !.counters = Append(@, counter_demand(p, Demand))]
        ELSE [seen EXCEPT !.proposals = Append(@, p), !.pooled = @ \cup {p.id}]

RECURSIVE HandleProposals(_, _)
HandleProposals(st, ps) ==
    IF ps = <<>> THEN st ELSE HandleProposals(HandleProposal(st, Head(ps)), Tail(ps))

\* (mutant) 0.13 * n + 2 candidates are enough after 5 s
EarlyQuorumTenth(n) == (13 * n) \div 100 + 2

\* 13 * providers_num / 10 + 2 (usize arithmetic)
EarlyQuorum(n) == (13 * n) \div 10 + 2

\* (mutant) the time limits are met already when they are reached
SelectionDueNotStrict(t, n, len) ==
    \/ (t >= 5 /\ len >= EarlyQuorum(n))
    \/ (t >= 30 /\ len >= n)

\* The test "are there enough proposals" (usize arithmetic).
SelectionDue(t, n, len) ==
    \/ (t > 5 /\ len >= EarlyQuorum(n))
    \/ (t > 30 /\ len >= n)

\* (mutant) every candidate is taken
PickedAll(candidates, n) == candidates

\* &proposals[..providers_num]
Picked(candidates, n) == SubSeq(candidates, 1, n)

RECURSIVE Ids(_)
Ids(ps) == IF ps = <<>> THEN <<>> ELSE <<Head(ps).id>> \o Ids(Tail(ps))

\* The time of the next selection check: the first follows the first collect
\* (up to 2 s), each later one the 3 s delay and the next collect.
NextCheckTimes == IF handled = <<>> /\ elapsed = 0 THEN {0, 2} ELSE {elapsed + 3, elapsed + 5}

\* One iteration of the loop: collect, the pass over the events, the
\* selection check (which spawns the agreement tasks and empties the
\* candidate vector), and the delay.
LoopIteration(events, t) ==
    /\ site = "requestor"
    /\ rpc = "running"
    /\ t <= MaxElapsed
    /\ events = <<>> \/ issued + Len(events) <= MaxIssued
    /\ issued' = issued + Len(events)
    /\ elapsed' = t
    /\ LET st == HandleProposals(LoopState, ProposalsOf(events, issued, 1))
       IN  /\ counters' = st.counters
           /\ handled' = st.handled
           /\ pooled' = st.pooled
           /\ lastCheck' =
                  [t |-> t, candidates |-> Ids(st.proposals),
                   selected |-> SelectionDue(t, providers_num, Len(st.proposals)),
                   rounds |-> IF SelectionDue(t, providers_num, Len(st.proposals))
                              THEN lastCheck.rounds + 1 ELSE lastCheck.rounds]
           /\ IF SelectionDue(t, providers_num, Len(st.proposals))
              THEN IF providers_num <= Len(st.proposals)
                   THEN /\ rstate' = "AnswerBestProposals"
                        /\ negotiating' =
                               negotiating \o Ids(Picked(st.proposals, providers_num))
                        /\ atasks' =
                               atasks \o NewTasks(Ids(Picked(st.proposals, providers_num)))
                        /\ proposals' = <<>>
                        /\ UNCHANGED rpc
                   ELSE \* the slice index is out of range: the loop panics
                        /\ rstate' = "AnswerBestProposals"
                        /\ proposals' = st.proposals
                        /\ rpc' = "panicked"
                        /\ UNCHANGED <<negotiating, atasks>>
              ELSE /\ rstate' = st.rstate
                   /\ proposals' = st.proposals
                   /\ UNCHANGED <<negotiating, atasks, rpc>>
    /\ UNCHANGED <<site, chan1, chan2, consumed, providers_num>>
    /\ UNCHANGED <<batchVars, dropVars, codecVars, payVars, sessVars, mktVars>>

\* collect fails: `?` ends the loop.
LoopCollectFails ==
    /\ site = "requestor"
    /\ rpc = "running"
    /\ rpc' = "failed"
    /\ UNCHANGED <<site, issued, chan1, chan2, consumed, counters, handled, rstate,
                   proposals, pooled, elapsed, providers_num, negotiating, lastCheck,
                   atasks>>
    /\ UNCHANGED <<batchVars, dropVars, codecVars, payVars, sessVars, mktVars>>

\* The next call of an agreement task, given how the current one ended.
\* create_agreement, confirm_agreement and wait_for_approval are followed by
\* the next call whatever they returned; exec follows only a created activity.
TaskAfter(task, ok) ==
    CASE task.pc = "create_agreement" ->
             [task EXCEPT !.pc = "confirm_agreement", !.created = ok]
      [] task.pc = "confirm_agreement" ->
             [task EXCEPT !.pc = "wait_for_approval", !.confirmed = ok]
      [] task.pc = "wait_for_approval" ->
             [task EXCEPT !.pc = "create_activity", !.approved = ok]
      [] task.pc = "create_activity" ->
             [task EXCEPT !.pc = IF ok THEN "exec" ELSE "done", !.activity = ok]
      [] OTHER -> [task EXCEPT !.pc = "done"]

\* The pending call of agreement task i returns.
AgreementTaskStep(i, ok) ==
    /\ site = "requestor"
    /\ i \in 1..Len(atasks)
    /\ atasks[i].pc # "done"
    /\ atasks' = [atasks EXCEPT ![i] = TaskAfter(@, ok)]
    /\ UNCHANGED <<site, issued, chan1, chan2, consumed, counters, handled, rstate,
                   proposals, pooled, elapsed, providers_num, negotiating, rpc, lastCheck>>
    /\ UNCHANGED <<batchVars, dropVars, codecVars, payVars, sessVars, mktVars>>

NextNeg ==
    \/ \E events \in EventLists : CollectorCollect(events)
    \/ NegotiateNext
    \/ ConsumerRecv
    \/ \E events \in EventLists, t \in NextCheckTimes : LoopIteration(events, t)
    \/ LoopCollectFails

\* The negotiation together with the agreement tasks it spawns.
NextNegTasks ==
    \/ NextNeg
    \/ \E i \in 1..MaxIssued, ok \in BOOLEAN : AgreementTaskStep(i, ok)

\* A batch that is never polled (the specifications of the other components).
IdleBatch == InitBatch /\ variant = "default"

(***************************************************************************)
(* Streams of the market: rest/market.rs                                   *)
(***************************************************************************)
\* Number of collect calls of one proposals() stream.
MaxCollects == 4

\* collect_proposals was not called.
NoCollector ==
    [task |-> "-", rx |-> "held", chan |-> 0, others |-> 1, seen |-> 0, last |-> "-",
     unsub |-> FALSE]

InitMkt ==
    /\ collector = NoCollector
    /\ pstatus = "open"
    /\ ppending = <<>>
    /\ pyielded = <<>>
    /\ plast = "-"
    /\ ppolls = 0
    /\ astatus = "idle"
    /\ anum = 0
    /\ agreements = <<>>
    /\ afailed = <<>>

\* (mutant) a collect without proposals ends the stream
StatusAfterEmptyEnds(outcome) ==
    IF outcome = "error" THEN "failed" ELSE IF outcome = "empty" THEN "ended" ELSE "open"

\* try_unfold over collect: `?` turns an error into the stream's last item;
\* any Ok gives Some((stream::iter(..), subscription)) and try_flatten goes on
\* to the next collect when that inner stream is used up.
StatusAfter(outcome) == IF outcome = "error" THEN "failed" ELSE "open"

\* proposals(): the stream is polled with nothing pending and collect
\* succeeds; the ProposalEvents become the inner stream.
ProposalsPoll(events) ==
    /\ pstatus = "open"
    /\ ppending = <<>>
    /\ ppolls < MaxCollects
    /\ ppolls' = ppolls + 1
    /\ LET ps == ProposalsOf(events, ppolls * MaxEvents, 1)
           outcome == IF ps = <<>> THEN "empty" ELSE "events"
       IN  /\ ppending' = ps
           /\ plast' = outcome
           /\ pstatus' = StatusAfter(outcome)
    /\ UNCHANGED <<pyielded, agrVars, collector>>
    /\ UNCHANGED <<batchVars, dropVars, codecVars, payVars, negVars, sessVars>>

\* proposals(): collect fails; the error is yielded.
ProposalsPollFails ==
    /\ pstatus = "open"
    /\ ppending = <<>>
    /\ ppolls < MaxCollects
    /\ ppolls' = ppolls + 1
    /\ plast' = "error"
    /\ pstatus' = StatusAfter("error")
    /\ pyielded' = Append(pyielded, [kind |-> "Err", id |-> 0])
    /\ UNCHANGED <<ppending, agrVars, collector>>
    /\ UNCHANGED <<batchVars, dropVars, codecVars, payVars, negVars, sessVars>>

\* proposals(): the next Proposal of the inner stream is yielded.
ProposalsNext ==
    /\ pstatus = "open"
    /\ ppending # <<>>
    /\ pyielded' = Append(pyielded, [kind |-> "Ok", id |-> Head(ppending).id])
    /\ ppending' = Tail(ppending)
    /\ UNCHANGED <<pstatus, plast, ppolls, agrVars, collector>>
    /\ UNCHANGED <<batchVars, dropVars, codecVars, payVars, negVars, sessVars>>

NextProposals ==
    \/ \E events \in EventLists : ProposalsPoll(events)
    \/ ProposalsPollFails
    \/ ProposalsNext

\* Largest num_agreements asked of negotiate_agreements.
MaxAgreements == 2

\* negotiate_agreement: the steps that can fail, in the order they are made
\* (create_agreement; confirm = confirm_agreement, wait_for_approval;
\* content; the node name in the offer), or none does.
NegotiateOutcomes ==
    {"ok", "create_agreement", "confirm_agreement", "wait_for_approval", "content",
     "node_name"}

\* (mutant) a failed candidate ends the call with its error
LoopAfterBail(outcome) == IF outcome = "ok" THEN "running" ELSE "failed"

\* The match in the loop: Ok pushes, Err is logged; neither leaves the loop.
LoopAfter(outcome) == "running"

\* negotiate_agreements is called: the vector is empty.
NegotiateAgreementsCall(num_agreements) ==
    /\ site = "market"
    /\ astatus = "idle"
    /\ astatus' = "running"
    /\ anum' = num_agreements
    /\ agreements' = <<>>
    /\ UNCHANGED <<afailed, propVars, collector>>
    /\ UNCHANGED <<batchVars, dropVars, codecVars, payVars, negVars, sessVars>>

\* One pass of the loop: the next negotiated proposal is received and
\* negotiate_agreement runs on it to its end.
NegotiateAgreement(outcome) ==
    /\ site = "market"
    /\ astatus = "running"
    /\ Len(agreements) < anum
    /\ chan2 # <<>>
    /\ chan2' = Tail(chan2)
    /\ consumed' = Append(consumed, Head(chan2))
    /\ IF outcome = "ok"
       THEN /\ agreements' = Append(agreements, Head(chan2).id)
            /\ UNCHANGED afailed
       ELSE /\ afailed' = Append(afailed, [id |-> Head(chan2).id, step |-> outcome])
            /\ UNCHANGED agreements
    /\ astatus' = LoopAfter(outcome)
    /\ UNCHANGED <<anum, propVars, collector>>
    /\ UNCHANGED <<site, issued, chan1, counters, handled, rstate, proposals, pooled,
                   elapsed, providers_num, negotiating, rpc, lastCheck, atasks>>
    /\ UNCHANGED <<batchVars, dropVars, codecVars, payVars, sessVars>>

\* The loop ends with enough agreements: Ok(agreements).
NegotiateAgreementsReturn ==
    /\ site = "market"
    /\ astatus = "running"
    /\ Len(agreements) >= anum
    /\ astatus' = "returned"
    /\ UNCHANGED <<anum, agreements, afailed, propVars, collector>>
    /\ UNCHANGED <<batchVars, dropVars, codecVars, payVars, negVars, sessVars>>

NextNegotiate ==
    \/ \E events \in EventLists : CollectorCollect(events)
    \/ NegotiateNext
    \/ \E n \in 0..MaxAgreements : NegotiateAgreementsCall(n)
    \/ \E outcome \in NegotiateOutcomes : NegotiateAgreement(outcome)
    \/ NegotiateAgreementsReturn

(***************************************************************************)
(* collect_proposals and proposals_collector: rest/market.rs               *)
(***************************************************************************)
\* Proposals the market delivers to one collector.
MaxProposals == 3
\* Proposal events in one collect response.
MaxBatch == 2

\* How a collect call of the collector can end: an error (the transport's
\* timeout or an error of the protocol), Ok without a ProposalEvent, Ok with
\* proposals.
CollectOutcomes == {"timeout", "protocol", "empty", "events"}

\* The state after collect_proposals: the task is spawned with a clone of
\* self.inner, the caller holds the Receiver and the Subscription.
InitCollector ==
    /\ collector = [NoCollector EXCEPT !.task = "running"]
    /\ pstatus = "open"
    /\ ppending = <<>>
    /\ pyielded = <<>>
    /\ plast = "-"
    /\ ppolls = 0
    /\ astatus = "idle"
    /\ anum = 0
    /\ agreements = <<>>
    /\ afailed = <<>>

\* Strong references to the SubscriptionInner: the task's, one in every
\* Proposal of the channel, and those held elsewhere.
StrongCount(c) == (IF c.task = "running" THEN 1 ELSE 0) + c.chan + c.others

\* Drop for SubscriptionInner runs when the last reference goes: the
\* unsubscribe is handed to the drop list.
Released(c) == [c EXCEPT !.unsub = (@ \/ StrongCount(c) = 0)]

\* proposals_collector, one turn of its loop: an Err of collect is logged and
\* the loop continues; the proposals of an Ok are sent one by one, and the
\* task returns when a send fails because the Receiver is gone.
ProposalsCollector(outcome, n) ==
    /\ collector.task = "running"
    /\ IF outcome = "events"
       THEN /\ collector.seen + n <= MaxProposals
            /\ collector' =
                   IF collector.rx = "held"
                   THEN [collector EXCEPT !.seen = @ + n, !.chan = @ + n, !.last = outcome]
                   ELSE Released([collector EXCEPT !.seen = @ + n, !.last = outcome,
                                                   !.task = "stopped"])
       ELSE /\ n = 1
            /\ collector' = [collector EXCEPT !.last = outcome]
    /\ UNCHANGED <<propVars, agrVars>>
    /\ UNCHANGED <<batchVars, dropVars, codecVars, payVars, negVars, sessVars>>

\* The consumer receives a proposal and keeps it.
ReceiverRecv ==
    /\ collector.rx = "held"
    /\ collector.chan > 0
    /\ collector' = [collector EXCEPT !.chan = @ - 1, !.others = @ + 1]
    /\ UNCHANGED <<propVars, agrVars>>
    /\ UNCHANGED <<batchVars, dropVars, codecVars, payVars, negVars, sessVars>>

\* The consumer drops the Receiver: the channel is closed and the proposals
\* left in it are dropped.
ReceiverDrop ==
    /\ collector.task # "-"
    /\ collector.rx = "held"
    /\ collector' = Released([collector EXCEPT !.rx = "dropped", !.chan = 0])
    /\ UNCHANGED <<propVars, agrVars>>
    /\ UNCHANGED <<batchVars, dropVars, codecVars, payVars, negVars, sessVars>>

\* A Subscription or a received Proposal goes out of scope.
HandleRelease ==
    /\ collector.task # "-"
    /\ collector.others > 0
    /\ collector' = Released([collector EXCEPT !.others = @ - 1])
    /\ UNCHANGED <<propVars, agrVars>>
    /\ UNCHANGED <<batchVars, dropVars, codecVars, payVars, negVars, sessVars>>

NextCollector ==
    \/ \E outcome \in CollectOutcomes, n \in 1..MaxBatch : ProposalsCollector(outcome, n)
    \/ ReceiverRecv
    \/ ReceiverDrop
    \/ HandleRelease

(***************************************************************************)
(* Specifications                                                          *)
(***************************************************************************)
StartBatch == InitBatch /\ InitDrop /\ IdleCodec /\ InitPay /\ IdleNeg /\ InitSess /\ InitMkt

SpecBatch == StartBatch /\ [][NextBatch]_vars

StartDrop == IdleBatch /\ InitDrop /\ IdleCodec /\ InitPay /\ IdleNeg /\ InitSess /\ InitMkt

SpecDrop == StartDrop /\ [][NextDrop]_vars

\* The worker task is scheduled, a remote call of an action comes to an end,
\* and a flush whose Sync was acknowledged resumes.
FairDrop ==
    /\ WF_vars(WorkerRecv)
    /\ WF_vars(\E a \in ActionIds, outcome \in {"ok", "err"} : ActionCompletes(a, outcome))
    /\ \A f \in FlushIds : WF_vars(FlushReturn(f))

\* NextDrop with the actions and the flush calls numbered in the order in
\* which they are made (the numbers are only names).
NextDropOrdered ==
    \/ \E a \in ActionIds : a = Len(enqueued) + 1 /\ AsyncDrop(a)
    \/ \E f \in FlushIds : (\A g \in 1..(f - 1) : fstate[g] # "idle") /\ FlushCall(f)
    \/ \E f \in FlushIds : FlushReturn(f)
    \/ WorkerRecv
    \/ \E a \in ActionIds, outcome \in {"ok", "err"} : ActionCompletes(a, outcome)

SpecDropLive == StartDrop /\ [][NextDropOrdered]_vars /\ FairDrop

\* The drop list while its worker may be torn down at any moment.
NextDropStop == NextDropOrdered \/ WorkerStops

SpecDropStop == StartDrop /\ [][NextDropStop]_vars /\ FairDrop

StartCodec == IdleBatch /\ InitDrop /\ InitCodec /\ InitPay /\ IdleNeg /\ InitSess /\ InitMkt

SpecCodec == StartCodec /\ [][NextCodec]_vars

StartFrames == IdleBatch /\ InitDrop /\ InitFrames /\ InitPay /\ IdleNeg /\ InitSess /\ InitMkt

SpecFrames == StartFrames /\ [][NextFrames]_vars

StartPay == IdleBatch /\ InitDrop /\ IdleCodec /\ InitPay /\ IdleNeg /\ InitSess /\ InitMkt

SpecPay == StartPay /\ [][NextPay]_vars

\* The payment manager with its scheduling: a timer set with run_later
\* fires, and a fetch returns (with events, with none after its 60 s timeout,
\* or with an error).
FairPay ==
    /\ WF_vars(UpdateInvoicesStart)
    /\ WF_vars((\E page \in InvoicePages : UpdateInvoicesOk(page)) \/ UpdateInvoicesErr)
    /\ WF_vars(UpdateDebitNotesStart)
    /\ WF_vars((\E n \in 0..MaxPage : UpdateDebitNotesOk(n)) \/ UpdateDebitNotesErr)

\* The two polling cycles alone, no AcceptAgreement message arriving.
NextPayCycles ==
    \/ UpdateInvoicesStart
    \/ \E page \in InvoicePages : UpdateInvoicesOk(page)
    \/ UpdateInvoicesErr
    \/ UpdateDebitNotesStart
    \/ \E n \in 0..MaxPage : UpdateDebitNotesOk(n)
    \/ UpdateDebitNotesErr

StartPayLive == IdleBatch /\ InitDrop /\ IdleCodec /\ InitPayLive /\ IdleNeg /\ InitSess /\ InitMkt

SpecPayLive == StartPayLive /\ [][NextPayCycles]_vars /\ FairPay

StartNeg == IdleBatch /\ InitDrop /\ IdleCodec /\ InitPay /\ InitNeg /\ InitSess /\ InitMkt

SpecNeg == StartNeg /\ [][NextNeg]_vars

SpecNegTasks == StartNeg /\ [][NextNegTasks]_vars

StartSess == IdleBatch /\ InitDrop /\ IdleCodec /\ InitPay /\ IdleNeg /\ InitSess /\ InitMkt

SpecSess == StartSess /\ [][NextSess]_vars

\* One call of negotiate_agreements on a subscription.
\* The selection test on pools and targets of every size.
StartSelect == IdleBatch /\ InitDrop /\ IdleCodec /\ InitPay /\ InitSelect /\ InitSess /\ InitMkt

NextSelect == \E t \in NextCheckTimes : LoopIteration(<<>>, t)

SpecSelect == StartSelect /\ [][NextSelect]_vars

StartCollector ==
    IdleBatch /\ InitDrop /\ IdleCodec /\ InitPay /\ IdleNeg /\ InitSess /\ InitCollector

\* collect_proposals with its background task and its consumer.
SpecCollector == StartCollector /\ [][NextCollector]_vars

\* The collector task is scheduled: a collect call comes to an end, one way
\* or another, and the task runs up to its next collect.
FairCollector == WF_vars(\E outcome \in CollectOutcomes, n \in 1..MaxBatch :
                             ProposalsCollector(outcome, n))

SpecCollectorLive == StartCollector /\ [][NextCollector]_vars /\ FairCollector

StartNegotiate == StartNeg /\ site = "market" /\ providers_num = 0

SpecNegotiate == StartNegotiate /\ [][NextNegotiate]_vars

\* Activities that are destroyed by hand and by their Drop.
SpecDestroy == StartSess /\ [][NextDestroy]_vars

\* One proposals() stream of a subscription.
SpecProposals == StartSess /\ [][NextProposals]_vars

SpecCancelable == StartSess /\ [][NextCancelable]_vars

(***************************************************************************)
(* Claims about the batch result stream                                    *)
(***************************************************************************)
IsEvent(item) == item.kind \in {"StepSuccess", "StepFailed"}

\* C1: for any sequence of poll responses, the result indices for which an
\* Event is delivered are strictly increasing, so no index is delivered twice.
C1_IndicesStrictlyIncreasing ==
    \A i, j \in 1..Len(delivered) :
        (i < j /\ IsEvent(delivered[i]) /\ IsEvent(delivered[j]))
            => delivered[i].index < delivered[j].index

\* What the consumer is owed for one result, stated from the contract:
\* StepSuccess with the matched command, StepFailed, or an error for an index
\* outside the command vector.
ExpectedItem(r) ==
    IF r.index \in 0..(Len(Commands) - 1)
    THEN IF r.ok
         THEN [kind |-> "StepSuccess", index |-> r.index, command |-> Commands[r.index + 1]]
         ELSE [kind |-> "StepFailed", index |-> r.index, command |-> "none"]
    ELSE [kind |-> "Err", index |-> r.index, command |-> "none"]

RECURSIVE ExpectedFrom(_, _, _)
\* the results of resp, from position i on, whose index is at or above `from`
ExpectedFrom(resp, from, i) ==
    IF i > Len(resp) THEN <<>>
    ELSE (IF from = None \/ resp[i].index >= from THEN <<ExpectedItem(resp[i])>> ELSE <<>>)
         \o ExpectedFrom(resp, from, i + 1)

ExpectedOfLastPoll == ExpectedFrom(lastPoll.resp, lastPoll.from, 1)

SinceLastPoll == SubSeq(delivered, lastPoll.base + 1, Len(delivered))

IsPrefix(s, t) == Len(s) <= Len(t) /\ s = SubSeq(t, 1, Len(s))

ScenarioEvents ==
    << [kind |-> "StepSuccess", index |-> 0, command |-> "Deploy"],
       [kind |-> "StepSuccess", index |-> 1, command |-> "Start"],
       [kind |-> "StepSuccess", index |-> 2, command |-> "Run"] >>

\* C10 (as stated): when the sequence has ended, every result of the
\* finishing response whose index had not been delivered before that poll
\* has been delivered.
C10_EveryUndeliveredResultDelivered ==
    bstatus = "ended" =>
        \A i \in 1..Len(lastPoll.resp) :
            (\A k \in 1..lastPoll.base : delivered[k].index # lastPoll.resp[i].index)
                => \E k \in (lastPoll.base + 1)..Len(delivered) :
                       delivered[k].index = lastPoll.resp[i].index

\* C10 (amended): events() is finite.  Once a response contains a result
\* flagged batch-finished, exactly the results of that response at or above
\* the poll's from-index are delivered, in response order; then the sequence
\* ends, and no further poll is issued.  For [Deploy, Start, Run] and the
\* responses [0,1], [1,2 finished] the delivered sequence is StepSuccess(Deploy),
\* StepSuccess(Start), StepSuccess(Run).
C10_EventsFinite ==
    /\ [](finish => IsPrefix(SinceLastPoll, ExpectedOfLastPoll))
    /\ [](bstatus = "ended" => (finish /\ SinceLastPoll = ExpectedOfLastPoll))
    /\ [][finish => npolls' = npolls]_vars
    /\ []((scenario = 2 /\ bstatus = "ended") => delivered = ScenarioEvents)

\* The scenario has run to its end.
C10_Witness == scenario = 2 /\ bstatus = "ended" /\ Len(delivered) = 3

\* C19: for both batch variants, a poll that timed out yields nothing and is
\* retried with the same from-index, the sequence staying open; any other
\* poll error is yielded as an error and ends the sequence.
C19_TimeoutRetried ==
    /\ lastPoll.outcome = "timeout"
           => /\ bstatus = "open"
              /\ Len(delivered) = lastPoll.base
              /\ command_index = lastPoll.from
    /\ lastPoll.outcome = "error"
           => /\ bstatus = "failed"
              /\ Len(delivered) = lastPoll.base + 1
              /\ delivered[Len(delivered)].kind = "Err"
              /\ pending = <<>>

\* The item is the error of a result whose index is outside the command vector.
InvalidIndexError(item) == item.kind = "Err" /\ item.index # None

\* C29: a result whose index is not a position of the stored command vector
\* gives an error, never an Event, and no Event is delivered after that error.
C29_InvalidIndexEndsEvents ==
    /\ \A i \in 1..Len(delivered) :
           (delivered[i].index # None /\ delivered[i].index + 1 > Len(Commands))
               => delivered[i].kind = "Err"
    /\ \A i \in 1..Len(delivered) : \A j \in (i + 1)..Len(delivered) :
           InvalidIndexError(delivered[i]) => delivered[j].kind = "Err"

\* How often the action of handle h was started by the worker.
TimesStarted(h) == Cardinality({i \in 1..Len(started) : started[i] = h})

\* destroy_activity calls that reached the remote for activity h: those of
\* destroy() and those of the deferred action once the worker runs it.
DestroyCalls(h) ==
    Cardinality({i \in 1..Len(hcalls[h]) : hcalls[h][i] = "destroy_activity"})
        + TimesStarted(h)

\* C28: destroy() is idempotent: a second destroy(), or the deferred teardown
\* at scope exit after a destroy(), has no further remote effect, so the
\* remote sees one teardown of an activity at most.
C28_DestroyedRemotelyOnce ==
    \A h \in HandleIds : hkind[h] \in ActivityKinds => DestroyCalls(h) <= 1

\* C32: the from-index of the next poll never decreases: a poll that was
\* answered leaves it at least where it was, and an empty answer leaves it
\* unchanged.
C32_LowWaterMarkMonotonic ==
    lastPoll.outcome = "ok" =>
        /\ command_index >= lastPoll.from
        /\ lastPoll.resp = <<>> => command_index = lastPoll.from

(***************************************************************************)
(* Claims about the streams of the market                                  *)
(***************************************************************************)
\* C26: proposals() stays open after a collect that brought no proposal and
\* collect is called again; it ends only with a failed collect, whose error
\* is the last item yielded, and no collect follows.
C26_EndsOnlyOnError ==
    /\ [](plast = "empty" => (pstatus = "open" /\ ppending = <<>>))
    /\ [](pstatus = "open" <=> plast # "error")
    /\ [](pstatus = "failed" =>
              /\ pyielded[Len(pyielded)].kind = "Err"
              /\ \A i \in 1..(Len(pyielded) - 1) : pyielded[i].kind = "Ok")
    /\ [][pstatus # "open" => (ppolls' = ppolls /\ pyielded' = pyielded)]_vars
    /\ [][(plast = "empty" /\ ppolls' # ppolls) => pstatus = "open"]_vars

\* A collect without proposals was followed by one that failed.
C26_Witness ==
    /\ ppolls = 2
    /\ pstatus = "failed"
    /\ pyielded = <<[kind |-> "Err", id |-> 0]>>

\* The candidates tried so far: agreed on or given up.
Tried == {agreements[i] : i \in 1..Len(agreements)} \cup {afailed[i].id : i \in 1..Len(afailed)}

\* C27: in negotiate_agreements a candidate whose create-agreement, confirm
\* or wait-for-approval fails is given up alone: the call goes on running
\* with its agreements unchanged, it tries the next negotiated proposal, and
\* it returns only Ok with num_agreements agreements.
C27_FailureAbandonsCandidateOnly ==
    /\ [][\A outcome \in NegotiateOutcomes \ {"ok"} :
            NegotiateAgreement(outcome) =>
                (agreements' = agreements /\ astatus' = "running")]_vars
    /\ [](astatus # "failed")
    /\ [](astatus = "returned" => Len(agreements) = anum)
    /\ []((astatus = "running" /\ Len(agreements) < anum /\ chan2 # <<>>) =>
             ENABLED (\E outcome \in NegotiateOutcomes : NegotiateAgreement(outcome)))
    /\ [](Tried = {consumed[i].id : i \in 1..Len(consumed)})

\* An agreement, then a candidate whose approval failed, then the agreement
\* that completes the call.
C27_Witness ==
    /\ astatus = "returned"
    /\ Len(agreements) = 2
    /\ Len(afailed) = 1
    /\ afailed[1].step = "wait_for_approval"
    /\ agreements[1] < afailed[1].id
    /\ afailed[1].id < agreements[2]

C3_SequentialInOrder ==
    /\ Cardinality(running) <= 1
    /\ IsPrefix(started, enqueued)
    /\ \A i \in 2..Len(started) : started[i - 1] \in finished
    /\ \A i \in 1..Len(started) : started[i] \in running \cup finished

\* Three actions were enqueued before any ran, and the second is in progress.
C3_Witness ==
    /\ Len(enqueued) = 3
    /\ Len(started) = 2
    /\ started[2] \in running
    /\ Len(dqueue) >= 1

\* Nothing is left to do: every action enqueued has run to its end and no
\* flush is waiting.
AllDone == SeqToSet(enqueued) = finished /\ \A f \in FlushIds : fstate[f] # "waiting"

\* C24: an action that failed is not started again and does not hold the
\* worker: it counts as finished, the actions are started in the order they
\* were enqueued, and in the end every action enqueued (those after a failed
\* one too) has run and every flush that was called has returned.
C24_FailedActionSwallowed ==
    /\ [](\A i, j \in 1..Len(started) : started[i] = started[j] => i = j)
    /\ [](\A a \in ActionIds : aresult[a] = "err" => (a \in finished /\ a \notin running))
    /\ [](IsPrefix(started, enqueued))
    /\ <>[]AllDone

\* The first action failed, the one enqueued after it succeeded, and a flush
\* called after both has returned.
C24_Witness ==
    /\ Len(enqueued) >= 2
    /\ aresult[enqueued[1]] = "err"
    /\ aresult[enqueued[2]] = "ok"
    /\ \E f \in FlushIds :
           fstate[f] = "returned" /\ {enqueued[1], enqueued[2]} \subseteq fbefore[f]

\* C40: a flush that was called eventually returns, the actions enqueued
\* before it coming to an end: the worker gets to its Sync entry and
\* acknowledges it, or the worker has stopped and the flush returns on the
\* closed queue or the dropped acknowledgement.
C40_FlushReturns ==
    \A f \in FlushIds : (fstate[f] = "waiting") ~> (fstate[f] = "returned")

\* The worker has stopped; one flush had been acknowledged before, another
\* returned without an acknowledgement.
C40_Witness ==
    /\ worker = "stopped"
    /\ \E f \in FlushIds : fstate[f] = "returned" /\ f \in acked
    /\ \E f \in FlushIds : fstate[f] = "returned" /\ f \notin acked /\ fbefore[f] # {}

(***************************************************************************)
(* Claims about the proposal collector                                     *)
(***************************************************************************)
\* C33: the collector retries a collect that timed out, and a collect that
\* failed with an error of the protocol ends its loop.
C33_ProtocolErrorEndsCollector ==
    /\ collector.last = "timeout" => collector.task = "running"
    /\ collector.last = "protocol" => collector.task = "stopped"

\* C39: once the Receiver is dropped the collector task stops, and when the
\* other handles are released as well the unsubscribe gets enqueued.
C39_CollectorStopsAfterReceiverDrop ==
    /\ (collector.rx = "dropped") ~> (collector.task = "stopped")
    /\ (collector.rx = "dropped" /\ collector.others = 0) ~> collector.unsub

(***************************************************************************)
(* Claims about handles and Session::with                                  *)
(***************************************************************************)
\* How often the action of handle h was registered.
TimesEnqueued(h) == Cardinality({i \in 1..Len(enqueued) : enqueued[i] = h})

\* C25: the cleanup of a cancelable handle is enqueued once if the handle was
\* created with the ledger and the first call on its list was async_drop, and
\* never otherwise (a later async_drop, any call after cancel, a handle
\* created detached); the worker starts it at most once.
C25_CancelableAtMostOnce ==
    \A h \in HandleIds :
        hkind[h] \in CancelableKinds =>
            /\ TimesEnqueued(h) =
                   (IF DropListOf(hkind[h]) = "Some" /\ hcalls[h] # <<>>
                       /\ hcalls[h][1] = "async_drop" THEN 1 ELSE 0)
            /\ TimesStarted(h) <= TimesEnqueued(h)
            /\ hcalls[h] # <<>> => hdrop[h] = "None"

\* A handle made by subscribe_demand on which async_drop was called twice,
\* its one action done; and one on which cancel came first.
C25_Witness ==
    /\ hkind[1] = "subscribe_demand"
    /\ hcalls[1] = <<"async_drop", "async_drop">>
    /\ TimesEnqueued(1) = 1
    /\ 1 \in finished
    /\ hkind[2] = "create_secure_activity"
    /\ hcalls[2] = <<"cancel", "async_drop">>
    /\ TimesEnqueued(2) = 0

\* C11: once the last holder of an Agreement made by create_agreement is
\* released, exactly one terminate-agreement action has been enqueued.
C11_AgreementTerminatedOnRelease ==
    \A h \in HandleIds :
        (hkind[h] = "create_agreement" /\ Holders(h) = 0) => TimesEnqueued(h) = 1

\* C12: for a Subscription made by subscribe, the unsubscribe action has
\* been enqueued exactly once if no holder is left, and not at all while a
\* holder remains.
C12_UnsubscribeOnLastRelease ==
    \A h \in HandleIds :
        hkind[h] = "subscribe_demand"
            => TimesEnqueued(h) = (IF Holders(h) = 0 THEN 1 ELSE 0)

\* A subscription lost its last holder, a Proposal consumed by
\* create_agreement, and its unsubscribe is registered.
C12_Witness ==
    /\ hkind[1] = "subscribe_demand"
    /\ hkind[2] = "create_agreement"
    /\ Holders(1) = 0
    /\ TimesEnqueued(1) = 1

C4_RoundTrip ==
    /\ cpos = Len(cinput) => (notified = <<cmsg>> /\ retained = cprefix \o csuffix)
    /\ IsPrefix(retained, cprefix \o csuffix)
    /\ IsPrefix(notified, <<cmsg>>)

\* A message holding a marker byte, text on both sides, and the stream
\* consumed in chunks one of which ended directly after the start marker.
C4_Witness ==
    /\ cpos = Len(cinput)
    /\ cmsg = <<STX>>
    /\ Len(cprefix) = 1 /\ Len(csuffix) = 1
    /\ cutAtMarker
    /\ notified = <<cmsg>>
    /\ retained = cprefix \o csuffix

\* Where the two frames lie in cinput (first and last byte, markers included).
F1Start == Len(cprefix) + 1
F1End == Len(cprefix) + Len(cfirst.bytes)
F2Start == F1End + Len(cmid) + 1
F2End == F2Start + Len(encode_message(cmsg)) - 1
Framed(i) == i \in F1Start..F1End \/ i \in F2Start..F2End

RECURSIVE UnframedUpTo(_)
\* The first n bytes of cinput without the framed ones, in order.
UnframedUpTo(n) ==
    IF n = 0 THEN <<>>
    ELSE UnframedUpTo(n - 1) \o (IF Framed(n) THEN <<>> ELSE <<cinput[n]>>)

\* The messages of the well-formed frames whose end marker is among the
\* first n bytes, in the order the frames end.
EndedMessages(n) ==
    (IF cfirst.ok /\ n >= F1End THEN <<cfirst.msg>> ELSE <<>>)
        \o (IF n >= F2End THEN <<cmsg>> ELSE <<>>)

\* The bytes of a frame that has begun and not ended within the first n bytes,
\* as the buffer holds them.
OpenFrame(n) ==
    IF n >= F1Start /\ n < F1End THEN <<Space>> \o SubSeq(cinput, F1Start + 1, n)
    ELSE IF n >= F2Start /\ n < F2End THEN <<Space>> \o SubSeq(cinput, F2Start + 1, n)
    ELSE <<>>

\* C21: in a stream of two well-formed frames (back-to-back or with text
\* between, in one chunk or across chunks) each frame yields exactly one
\* message, in the chunk that holds its end marker and in the order the frames
\* end; the retained output is the input without the framed bytes, in order;
\* and a chunk made of framed bytes only yields no retained output.
C21_FramesInOrder ==
    /\ [](cfirst.ok => (notified = EndedMessages(cpos) /\ retained = UnframedUpTo(cpos)))
    /\ [][(cfirst.ok /\ \A i \in (cpos + 1)..cpos' : Framed(i)) => lastOut' = "None"]_vars

\* Two different messages, text before and between the frames, all consumed,
\* one chunk having ended directly after the first start marker.
C21_Witness ==
    /\ cfirst.ok
    /\ cpos = Len(cinput)
    /\ cfirst.msg # cmsg
    /\ cprefix # <<>> /\ cmid # <<>>
    /\ cutAtMarker
    /\ notified = <<cfirst.msg, cmsg>>
    /\ retained = cprefix \o cmid

\* C22: a completed frame whose payload does not decode emits no message; the
\* buffer is cleared and scanning goes on outside the frame in the same
\* chunk, so the buffer holds only what a later open frame has brought; the
\* retained output is the one of a frame that decodes; the later well-formed
\* frame is decoded.
C22_BadFrameDropped ==
    (~cfirst.ok /\ cfirst # NoFrame) =>
        /\ notified = (IF cpos >= F2End THEN <<cmsg>> ELSE <<>>)
        /\ buffer = OpenFrame(cpos)
        /\ retained = UnframedUpTo(cpos)

\* A frame that holds a cut-short JSON text, then text, then the frame of M:
\* all consumed, only M emitted.
C22_Witness ==
    /\ cfirst.bytes = Frame(InfoOpen \o <<97>>)
    /\ ~cfirst.ok
    /\ cmid # <<>>
    /\ cpos = Len(cinput)
    /\ notified = <<cmsg>>
    /\ buffer = <<>>
    /\ retained = cprefix \o cmid

\* C20: a poll whose standard-output chunk was entirely consumed by framing
\* emits no event and reports pending, never end-of-stream; only the end of
\* the inner stream ends the capture stream.
C20_ConsumedChunkPending ==
    /\ (polled.item = "StdOut" /\ lastOut = "None") => polled.result = "Pending"
    /\ polled.result = "Ready(None)" => polled.item = "end"

\* C35: when the inner stream has reported its end, the poll of the capture
\* stream reports end-of-stream too.
C35_EndsWithInnerStream == polled.item = "end" => polled.result = "Ready(None)"

(***************************************************************************)
(* Claims about the payment manager                                        *)
(***************************************************************************)
IsDecision(e) == e.kind = "invoice"
Accepted(e) == IsDecision(e) /\ e.after.calls[Len(e.after.calls)].op = "accept_invoice"
Rejected(e) == IsDecision(e) /\ e.after.calls[Len(e.after.calls)].op = "reject_invoice"

\* C23: each polling cycle schedules its next run after every run, failed or
\* not, and a failed run of one cycle leaves the other cycle as it was: both
\* cycles start a fetch infinitely often.
C23_CyclesRunForever ==
    /\ []<>(ipc = "fetching") /\ []<>(ipc = "scheduled")
    /\ []<>(dpc = "fetching") /\ []<>(dpc = "scheduled")
    /\ [][UpdateInvoicesErr => (ipc' = "scheduled" /\ UNCHANGED <<dpc, dts>>)]_vars
    /\ [][UpdateDebitNotesErr => (dpc' = "scheduled" /\ UNCHANGED <<ipc, its>>)]_vars

\* The last invoice run and the last debit note run both failed, and both
\* cycles are fetching again.
C23_Witness ==
    /\ prun = [invoices |-> "err", debit_notes |-> "err"]
    /\ ipc = "fetching"
    /\ dpc = "fetching"

\* C5: an invoice is accepted only if its agreement id is in valid_agreements
\* when it is processed, and acceptance removes the id: between two accepted
\* invoices of one agreement there is an AcceptAgreement for it, and an invoice
\* that follows an accepted one with no AcceptAgreement in between is rejected.
C5_AcceptOnlyWhileValid ==
    /\ \A i \in 1..Len(plog) :
          Accepted(plog[i]) =>
              /\ plog[i].agreement_id \in plog[i].before.valid_agreements
              /\ plog[i].agreement_id \notin plog[i].after.valid_agreements
    /\ \A i, j \in 1..Len(plog) :
          (i < j /\ Accepted(plog[i]) /\ IsDecision(plog[j])
               /\ plog[i].agreement_id = plog[j].agreement_id
               /\ \A k \in (i + 1)..(j - 1) :
                      ~(plog[k].kind = "mark" /\ plog[k].agreement_id = plog[i].agreement_id))
              => Rejected(plog[j])
    /\ \A a \in Agreements :
          Cardinality({i \in 1..Len(plog) : Accepted(plog[i]) /\ plog[i].agreement_id = a})
              <= Cardinality({i \in 1..Len(plog) :
                                  plog[i].kind = "mark" /\ plog[i].agreement_id = a})

\* One AcceptAgreement(a1), then two invoices for a1 in one page: the first
\* was accepted, the second rejected.
C5_Witness ==
    /\ Len(plog) = 3
    /\ plog[1].kind = "mark" /\ plog[1].agreement_id = "a1"
    /\ Accepted(plog[2]) /\ plog[2].agreement_id = "a1"
    /\ Rejected(plog[3]) /\ plog[3].agreement_id = "a1"

\* C6: an invoice whose agreement id is absent from valid_agreements is
\* rejected with reason "unsolicited service" and zero accepted amount, and
\* valid_agreements and amount_paid (and the timestamps) are left unchanged.
C6_UnsolicitedRejected ==
    \A i \in 1..Len(plog) :
        (IsDecision(plog[i]) /\ plog[i].agreement_id \notin plog[i].before.valid_agreements)
            => LET e == plog[i]
                   call == e.after.calls[Len(e.after.calls)]
               IN  /\ Len(e.after.calls) = Len(e.before.calls) + 1
                   /\ call.op = "reject_invoice"
                   /\ call.invoice_id = e.invoice.invoice_id
                   /\ call.rejection_reason = "UnsolicitedService"
                   /\ call.total_amount_accepted = 0
                   /\ e.after = [e.before EXCEPT !.calls = e.after.calls]

\* An invoice for a2 was rejected while a1, not a2, was marked payable.
C6_Witness ==
    \E i \in 1..Len(plog) :
        /\ Rejected(plog[i])
        /\ plog[i].agreement_id = "a2"
        /\ plog[i].before.valid_agreements = {"a1"}

\* C7: when an invoice whose agreement id is in valid_agreements is processed,
\* exactly that id is removed, amount_paid grows by exactly the invoice's
\* amount, one accept-invoice call for the full amount against the manager's
\* allocation is issued, and the timestamps and the other ids are unchanged.
C7_AcceptEffect ==
    \A i \in 1..Len(plog) :
        (IsDecision(plog[i]) /\ plog[i].agreement_id \in plog[i].before.valid_agreements)
            => LET e == plog[i]
               IN  e.after =
                       [valid_agreements |-> e.before.valid_agreements \ {e.agreement_id},
                        amount_paid |-> e.before.amount_paid + e.invoice.amount,
                        last_invoice_event |-> e.before.last_invoice_event,
                        last_debit_note_event |-> e.before.last_debit_note_event,
                        calls |-> Append(e.before.calls,
                                         [op |-> "accept_invoice",
                                          invoice_id |-> e.invoice.invoice_id,
                                          total_amount_accepted |-> e.invoice.amount,
                                          allocation_id |-> AllocationId,
                                          rejection_reason |-> "-", message |-> "-"])]

\* An invoice of amount 2 for a1 was accepted while both a1 and a2 were payable.
C7_Witness ==
    \E i \in 1..Len(plog) :
        /\ Accepted(plog[i])
        /\ plog[i].agreement_id = "a1"
        /\ plog[i].invoice.amount = 2
        /\ plog[i].before.valid_agreements = {"a1", "a2"}
        /\ plog[i].after.valid_agreements = {"a2"}

\* Agreement a has been marked by an AcceptAgreement that was handled before
\* entry j of the log and no invoice for it has been accepted since.
Payable(a, j) ==
    \E k \in 1..(j - 1) :
        /\ plog[k].kind = "mark" /\ plog[k].agreement_id = a
        /\ \A m \in (k + 1)..(j - 1) : ~(Accepted(plog[m]) /\ plog[m].agreement_id = a)

\* Handler<GetPending>::handle: valid_agreements.len()
GetPending == Cardinality(valid_agreements)

\* C37: what happens to an invoice of agreement a depends only on the order in
\* which AcceptAgreement(a) is handled and the invoice is processed: accepted
\* if the agreement was marked before, rejected otherwise and not decided
\* again; an agreement marked after its invoice was rejected stays marked and
\* is counted by GetPending.
C37_OutcomeByHandlingOrder ==
    /\ \A j \in 1..Len(plog) :
           IsDecision(plog[j]) =>
               /\ Accepted(plog[j]) <=> Payable(plog[j].agreement_id, j)
               /\ Rejected(plog[j]) <=> ~Payable(plog[j].agreement_id, j)
    /\ \A i, j \in 1..Len(plog) :
           (i < j /\ IsDecision(plog[i]) /\ IsDecision(plog[j]))
               => plog[i].invoice.invoice_id # plog[j].invoice.invoice_id
    /\ \A a \in Agreements : a \in valid_agreements <=> Payable(a, Len(plog) + 1)
    /\ GetPending = Cardinality({a \in Agreements : Payable(a, Len(plog) + 1)})

\* The invoice of a1 was processed first and rejected; AcceptAgreement(a1)
\* was handled afterwards; the next fetch is in flight and a1 is pending.
C37_Witness ==
    /\ Len(plog) = 2
    /\ Rejected(plog[1]) /\ plog[1].agreement_id = "a1"
    /\ plog[2].kind = "mark" /\ plog[2].agreement_id = "a1"
    /\ ipc = "fetching"
    /\ GetPending = 1
    /\ amount_paid = 0

RECURSIVE AcceptedTotal(_)
\* The sum of the amounts of the accept_invoice calls made.
AcceptedTotal(calls) ==
    IF calls = <<>> THEN 0
    ELSE (IF Head(calls).op = "accept_invoice" THEN Head(calls).total_amount_accepted ELSE 0)
         + AcceptedTotal(Tail(calls))

\* C38: amount_paid is the sum of the amounts of the invoices accepted so
\* far and never exceeds the allocation's total_amount.
C38_PaidWithinAllocation ==
    /\ amount_paid = AcceptedTotal(pcalls)
    /\ amount_paid <= TotalAmount

\* C36: a failed invoice cycle decides nothing and leaves the timestamp, the
\* marked agreements and the paid total as they were; the next cycle fetches
\* from the same timestamp; and no invoice is decided twice.
C36_FailedCycleDecidesNothing ==
    /\ [][UpdateInvoicesErr =>
              UNCHANGED <<last_invoice_event, valid_agreements, amount_paid, pcalls>>]_vars
    /\ [][UpdateInvoicesStart => its' = last_invoice_event]_vars
    /\ [](\A i, j \in 1..Len(pcalls) :
              i # j => pcalls[i].invoice_id # pcalls[j].invoice_id)
    /\ [](Len(pcalls) <= last_invoice_event)

\* An invoice was decided, the next cycle failed, and the cycle after it is
\* fetching from the timestamp the failed one had.
C36_Witness ==
    /\ prun.invoices = "err"
    /\ ipc = "fetching"
    /\ its = last_invoice_event
    /\ last_invoice_event = 1
    /\ Len(pcalls) = 1

(***************************************************************************)
(* Claims about proposal negotiation                                       *)
(***************************************************************************)
\* The counter-proposal calls made for proposal id.
CountersFor(id) == {i \in 1..Len(counters) : counters[i].proposal_id = id}

\* The proposals taken up so far, in order.
HandledProposals == [i \in 1..Len(handled) |-> handled[i].proposal]

\* Every counter-proposal call carries the properties and constraints of the
\* caller's demand.
CountersCarryDemand ==
    \A i \in 1..Len(counters) :
        /\ counters[i].properties = Demand.properties
        /\ counters[i].constraints = Demand.constraints

RequestorCounters(h) ==
    /\ h.proposal.state \in {"Initial", "None"}
    /\ h.rstate = "WaitForInitialProposals"
    /\ h.proposal.counterable

ResponsesNeverCountered ==
    \A i \in 1..Len(handled) :
        handled[i].proposal.prev => CountersFor(handled[i].proposal.id) = {}

RECURSIVE WithPrev(_)
\* the proposals of a sequence that carry a previous-proposal id, in order
WithPrev(ps) ==
    IF ps = <<>> THEN <<>>
    ELSE (IF Head(ps).prev THEN <<Head(ps)>> ELSE <<>>) \o WithPrev(Tail(ps))

\* What the consumer of negotiated_proposals has received or will receive is
\* the proposals with a previous-proposal id taken up so far, in their order.
ForwardedInOrder == site = "market" => consumed \o chan2 = WithPrev(HandledProposals)

C34_SelectionWithinPool ==
    /\ rpc # "panicked"
    /\ lastCheck.selected => providers_num <= Len(lastCheck.candidates)
    /\ \A n \in 0..MaxQuorumTarget : n <= EarlyQuorum(n)

\* With target 3 the early test selected with exactly 13 * 3 / 10 + 2 = 5
\* candidates and three agreement tasks were started.
C34_Witness ==
    /\ providers_num = 3
    /\ lastCheck.selected
    /\ lastCheck.t > 5 /\ lastCheck.t <= 30
    /\ Len(lastCheck.candidates) = EarlyQuorum(3)
    /\ Len(negotiating) = 3
    /\ rpc = "running"

\* C31: when the timeout has passed and no selection has been made, the
\* Requestor loop has ended with a failure: it is not running any more.
C31_EndsAtTimeout ==
    (site = "requestor" /\ elapsed > Timeout /\ rstate = "WaitForInitialProposals")
        => rpc # "running"

(***************************************************************************)
(* Claims about selection and the agreement tasks                          *)
(***************************************************************************)
\* C15: a create-activity call is issued by an agreement task only after its
\* create-agreement, confirm and wait-for-approval calls have all succeeded.
C15_ActivityOnlyAfterApproval ==
    \A i \in 1..Len(atasks) :
        atasks[i].pc \in {"exec", "done"}
            => atasks[i].created /\ atasks[i].confirmed /\ atasks[i].approved

\* C16 as stated: the latest check selected exactly if elapsed > 5 s and
\* candidates >= 1.3 * target + 2, or elapsed > 30 s and candidates >= target.
C16_SelectsOnRealThreshold ==
    lastCheck.selected <=>
        \/ (lastCheck.t > 5 /\ 10 * Len(lastCheck.candidates) >= 13 * providers_num + 20)
        \/ (lastCheck.t > 30 /\ Len(lastCheck.candidates) >= providers_num)

\* C16 (amended): the latest check selected exactly if elapsed > 5 s and
\* candidates >= floor(13 * target / 10) + 2, or elapsed > 30 s and
\* candidates >= target; a check that selected left the loop with an empty
\* candidate vector, one that did not left the vector as it was.
C16_SelectsOnIntegerThreshold ==
    /\ lastCheck.selected <=>
           \/ (lastCheck.t > 5
                 /\ Len(lastCheck.candidates) >= ((13 * providers_num) \div 10) + 2)
           \/ (lastCheck.t > 30 /\ Len(lastCheck.candidates) >= providers_num)
    /\ site = "requestor" =>
           Ids(proposals) = (IF lastCheck.selected THEN <<>> ELSE lastCheck.candidates)

\* With target 1, a check within the first 30 s selected with 3 candidates,
\* fewer than 1.3 * 1 + 2.
C16_Witness ==
    /\ providers_num = 1
    /\ lastCheck.selected
    /\ lastCheck.t > 5 /\ lastCheck.t <= 30
    /\ Len(lastCheck.candidates) = 3

\* C17: every selection round starts exactly `target` agreement tasks, for
\* the first `target` candidates in arrival order and no others, each about to
\* call create_agreement first; the candidate vector is emptied, and no
\* candidate is negotiated twice.
C17_FirstTargetCandidates ==
    /\ Len(negotiating) = providers_num * lastCheck.rounds
    /\ Len(atasks) = Len(negotiating)
    /\ \A i \in 1..Len(atasks) : atasks[i].id = negotiating[i]
    /\ \A i, j \in 1..Len(negotiating) : i # j => negotiating[i] # negotiating[j]
    /\ SeqToSet(negotiating) \subseteq pooled
    /\ lastCheck.selected
           => /\ proposals = <<>>
              /\ Len(lastCheck.candidates) >= providers_num
              /\ SubSeq(negotiating, Len(negotiating) - providers_num + 1, Len(negotiating))
                     = SubSeq(lastCheck.candidates, 1, providers_num)

\* With target 1, three responses were candidates when the threshold was met
\* and one agreement task, for the first of them, was started.
C17_Witness ==
    /\ providers_num = 1
    /\ lastCheck.selected
    /\ Len(lastCheck.candidates) = 3
    /\ negotiating = <<lastCheck.candidates[1]>>
    /\ atasks = <<NewTask(lastCheck.candidates[1])>>

\* C18: between iterations the Requestor loop is in its collecting phase:
\* after a selection round it is back in WaitForInitialProposals.
C18_ResetToCollecting == site = "requestor" => rstate = "WaitForInitialProposals"

====
